---- MODULE Spec2Model ----
(***************************************************************************)
(* Model of the site generator's deployment client (NetlifyClient):        *)
(* createDeployDigest, uploadRequiredFiles, pollUntilReady, getDeployUrl   *)
(* and deployFiles, with the hosting provider as the environment.          *)
(***************************************************************************)
EXTENDS Integers, Sequences, FiniteSets, TLC

\* ------------------------------------------------------------------ bounds
MaxFiles == 2
MaxRequired == 2
MaxRequests == 2
MaxPolls == 2

\* ------------------------------------------------------- values of the model
Undefined == "<undefined>"

\* File names as sequences of characters, so that startsWith('/') is computed.
FileNames == { <<"a">>, <<"/", "a">>, <<"b">> }
Contents == { "", "<html></html>", "body { margin: 0; }" }

\* Elapsed network time of one provider call, and the lateness of a timer.
Latencies == { 0, 20000 }
TimerLate == { 0, 1 }
\* maxTimeoutMs values of direct pollUntilReady calls.
Budgets == { -1, 0, 100, 1000, 3000 }

HttpStatuses == { 200, 401, 403, 429, 500 }
\* Statuses of the answers to a PUT and to a status query.
PlainStatuses == { 200, 500 }
Bodies == { "boom", "" }
DeployIds == { "deploy-123", "deploy-456" }
DeployStates == { "ready", "error", "failed", "building", "new", Undefined }
SslUrls == { Undefined, "", "https://a" }
Urls == { Undefined, "", "http://b" }
DeployUrls == { Undefined, "", "https://c" }

\* ------------------------------------------------------------ pure helpers
\* NetlifyClient.sha1: the SHA1 hex digests of the contents of the model.
sha1(content) ==
  CASE content = "" -> "da39a3ee5e6b4b0d3255bfef95601890afd80709"
    [] content = "<html></html>" -> "941efb7368e46b27b937d34b07fc4d41da01b002"
    [] content = "body { margin: 0; }" -> "1a83ba206701dfe4229b983b3d2a848cc18c367f"

Shas == { sha1(c) : c \in Contents } \cup { "non-existent-sha" }

\* Variant of NormalizePath: the slash is always prefixed.
NormalizePath_Always(filename) == <<"/">> \o filename

\* filename.startsWith('/') ? filename : `/${filename}`
NormalizePath(filename) ==
  IF Len(filename) > 0 /\ filename[1] = "/" THEN filename ELSE <<"/">> \o filename

\* response.ok
Ok(status) == status >= 200 /\ status <= 299

\* JavaScript truthiness of an optional string
Truthy(v) == v # Undefined /\ v # ""

\* The digest of createDeployDigest: entries in iteration order, a later
\* entry with the same normalized path overwrites the earlier one.
RECURSIVE BuildDigest(_, _)
BuildDigest(fs, n) ==
  IF n = 0 THEN << >>
  ELSE LET rest == BuildDigest(fs, n - 1)
           path == NormalizePath(fs[n].name)
           pos  == IF \E i \in 1..Len(rest) : rest[i].path = path
                   THEN CHOOSE i \in 1..Len(rest) : rest[i].path = path
                   ELSE Len(rest) + 1
           entry_ == [path |-> path, sha |-> sha1(fs[n].content)]
       IN  IF pos <= Len(rest)
           THEN [rest EXCEPT ![pos] = entry_]
           ELSE Append(rest, entry_)

\* shaToFiles[sha]: the normalized paths of the files with that fingerprint,
\* in iteration order.
RECURSIVE PathsOf(_, _, _)
PathsOf(fs, sha, n) ==
  IF n = 0 THEN << >>
  ELSE IF sha1(fs[n].content) = sha
       THEN Append(PathsOf(fs, sha, n - 1), NormalizePath(fs[n].name))
       ELSE PathsOf(fs, sha, n - 1)

\* Variant of ShaToFiles: the paths of a fingerprint in reverse order.
ShaToFiles_Last(fs, sha) ==
  LET ps == PathsOf(fs, sha, Len(fs))
  IN  [i \in 1..Len(ps) |-> ps[Len(ps) + 1 - i]]

\* A fingerprint of no file has no key in shaToFiles; the code treats a
\* missing key and an empty list alike, and the model writes both << >>.
ShaToFiles(fs, sha) == PathsOf(fs, sha, Len(fs))

\* Variant of FindContent: the content of the first file, whatever its
\* fingerprint.
FindContent_First(fs, requiredSha) ==
  IF Len(fs) > 0 THEN fs[1].content ELSE Undefined

\* The inner search of uploadRequiredFiles: content of the first file whose
\* fingerprint is requiredSha, Undefined when the loop finds none.
FindContent(fs, requiredSha) ==
  IF \E i \in 1..Len(fs) : sha1(fs[i].content) = requiredSha
  THEN LET i == CHOOSE k \in 1..Len(fs) :
                  /\ sha1(fs[k].content) = requiredSha
                  /\ \A j \in 1..(k - 1) : sha1(fs[j].content) # requiredSha
       IN  fs[i].content
  ELSE Undefined

\* !filePaths || filePaths.length === 0
NoFilePaths(filePaths) == Len(filePaths) = 0

\* !fileContent
NoFileContent(fileContent) == ~Truthy(fileContent)

\* Variant of getDeployUrl: url is preferred to ssl_url.
getDeployUrl_UrlFirst(d) ==
  IF Truthy(d.url) THEN d.url
  ELSE IF Truthy(d.ssl_url) THEN d.ssl_url
  ELSE IF Truthy(d.deploy_url) THEN d.deploy_url
  ELSE ""

\* getDeployUrl
getDeployUrl(d) ==
  IF Truthy(d.ssl_url) THEN d.ssl_url
  ELSE IF Truthy(d.url) THEN d.url
  ELSE IF Truthy(d.deploy_url) THEN d.deploy_url
  ELSE ""

\* Errors: name and message, the message as the parts of its template.
Err(msg) == [name |-> "Error", message |-> <<msg>>]
ApiError(status, body) ==
  [name |-> "Error", message |-> <<"Netlify API error: ", ToString(status), " ", body>>]
PollError(status, body) ==
  [name |-> "Error",
   message |-> <<"Failed to poll deployment: ", ToString(status), " ", body>>]
FetchRejected == [name |-> "TypeError", message |-> <<"fetch failed">>]

KnownErrors ==
  { <<"NETLIFY_AUTH">>, <<"NETLIFY_RATE_LIMIT">>, <<"NETLIFY_REQUIRED_UPLOAD_FAILED">>,
    <<"NETLIFY_DEPLOY_TIMEOUT">>, <<"NETLIFY_DEPLOY_FAILED">>, <<"NETLIFY_NO_URL">> }

\* Variant of DeployFilesCatch: every error is thrown on as it is.
DeployFilesCatch_Rethrow(error) == error

\* The catch block of deployFiles.
DeployFilesCatch(error) ==
  IF error.message \in KnownErrors
  THEN error
  ELSE [name |-> "Error",
        message |-> <<"NETLIFY_DEPLOY_ERROR: ", error.name, ": ">> \o error.message]

\* Variant of CreateError: 403 is not taken as an authentication failure.
CreateError_No403(status, body) ==
  IF status = 401 THEN Err("NETLIFY_AUTH")
  ELSE IF status = 429 THEN Err("NETLIFY_RATE_LIMIT")
  ELSE ApiError(status, body)

\* createDeployDigest's mapping of a non-success response.
CreateError(status, body) ==
  IF status = 401 \/ status = 403 THEN Err("NETLIFY_AUTH")
  ELSE IF status = 429 THEN Err("NETLIFY_RATE_LIMIT")
  ELSE ApiError(status, body)

\* Backoff of pollUntilReady, delays in quarters of a millisecond so that
\* the factor 1.5 stays exact: delay = Math.min(delay * 1.5, maxDelay).
InitialDelayQ == 4000
MaxDelayQ == 32000
\* Variant of NextDelay: the delay doubles.
NextDelay_Double(d) == IF d * 2 < MaxDelayQ THEN d * 2 ELSE MaxDelayQ

NextDelay(d) == IF (d * 3) \div 2 < MaxDelayQ THEN (d * 3) \div 2 ELSE MaxDelayQ
\* setTimeout truncates its delay to whole milliseconds.
TimerMs(d) == d \div 4
DefaultMaxTimeoutMs == 90000

\* ------------------------------------------------------------ input domains
Files == [name : FileNames, content : Contents]
FileSets ==
  UNION { { fs \in [1..n -> Files] :
              \A i, j \in 1..n : i # j => fs[i].name # fs[j].name } : n \in 0..MaxFiles }
\* The FileSets handed to deployFiles: none, one file, two files of different
\* content, two of the same content, and one with an empty file.
DeployedFileSets ==
  { << >>,
    << [name |-> <<"a">>, content |-> "<html></html>"] >>,
    << [name |-> <<"a">>, content |-> "<html></html>"],
       [name |-> <<"b">>, content |-> "body { margin: 0; }"] >>,
    << [name |-> <<"/", "a">>, content |-> "<html></html>"],
       [name |-> <<"b">>, content |-> "<html></html>"] >>,
    << [name |-> <<"a">>, content |-> "<html></html>"],
       [name |-> <<"b">>, content |-> ""] >> }
RequiredLists == UNION { [1..n -> Shas] : n \in 0..MaxRequired }
NoDeploy ==
  [id |-> Undefined, state |-> Undefined,
   ssl_url |-> Undefined, url |-> Undefined, deploy_url |-> Undefined]
\* Status payloads of deployment id: the URL fields are set once it is ready.
Payloads(id) ==
  { [id |-> id, state |-> st, ssl_url |-> Undefined, url |-> Undefined,
     deploy_url |-> Undefined] : st \in DeployStates \ {"ready"} }
  \cup [id : {id}, state : {"ready"}, ssl_url : SslUrls, url : Urls,
        deploy_url : DeployUrls]
\* The deploy objects given to getDeployUrl directly.
DeployObjects ==
  [id : {"deploy-123"}, state : {Undefined, "ready"}, ssl_url : SslUrls, url : Urls,
   deploy_url : DeployUrls]
NoError == [name |-> Undefined, message |-> << >>]
NoReply == [status |-> 0, body |-> ""]
\* What the code reads of an answer: response.text() only when it is not ok.
Reply(status, body) == [status |-> status, body |-> IF Ok(status) THEN "" ELSE body]
NoResult == [kind |-> "none", url |-> Undefined, deploy |-> NoDeploy, error |-> NoError]

\* -------------------------------------------------------------------- state
VARIABLES
  pc,           \* "idle", "create", "put", "status", "sleep", "done"
  entry,        \* the method the caller invoked
  files,        \* the FileSet, in Object.entries order
  digest,       \* the manifest sent by createDeployDigest
  deployId,     \* the id the upload and status calls target
  required,     \* [present, list]: the required list of the call
  reqIdx,       \* position of uploadRequiredFiles in the required list
  puts,         \* the PUT requests sent, in order
  putReplies,   \* the statuses of the PUT responses received, in order
  inflight,     \* the provider calls sent and not yet answered
  nCreate,      \* create-deployment calls sent
  nStatus,      \* status queries sent
  nSleeps,      \* sleeps started
  startTime,    \* pollUntilReady's startTime
  now,          \* Date.now()
  maxTimeoutMs, \* pollUntilReady's budget
  delay,        \* pollUntilReady's delay, in quarters of a millisecond
  sleepMs,      \* the duration of the sleep in progress
  deploy,       \* the payload of the last status query
  deployArg,    \* the argument of a direct getDeployUrl call
  createReply,  \* status and body read from the create-deployment answer
  statusReply,  \* status and body read from the last status answer
  raised,       \* the error as raised by the step that failed
  result,       \* the outcome of the call
  reqs,         \* concurrent POST requests: the locals of each deployFiles call
  issued,       \* provider: the ids issued, each with the request it answered
  wire,         \* the provider calls sent by the concurrent requests
  dgFiles,      \* createDeployDigest alone: the FileSet of the calls
  dgSent,       \* createDeployDigest alone: the manifest each call submitted
  rlStorage,    \* rate limiter: this.storage, identifier -> entry
  rlNow,        \* rate limiter: Date.now()
  rlResult,     \* rate limiter: what the last check returned
  rlGranted,    \* rate limiter: per identifier, the window open and its allowed checks
  rlSlots,      \* rate limiter: the requests awaiting checkRateLimit
  lkTable,      \* short links: the rows of the link table
  lkCalls,      \* short links: the locals of each createShortLink call
  lkEnv,        \* short links: process.env.BASE_URL
  lkGet,        \* short links: the last answer of the redirect endpoint
  lkMap,        \* short links: linkStorage of the store-link function
  sbEndpoint,   \* submit: the route handler or the function handler
  sbPc,         \* submit: the stage the request is at
  sbLog,        \* submit: the stages run, in order
  sbDeploy,     \* submit: how deployFiles ended
  sbTwinDeploy, \* submit: how it ended in the twin run, which differs in provider text only
  sbResponse,   \* submit: the response returned
  sbTwinResponse, \* submit: the response of the twin run
  sbGenerated,  \* submit: the API answer generateSite worked on, and how it ended
  sbUrl,        \* submit: the URL deployFiles returned
  sbTable,      \* submit: the rows of the link table
  sbBody,       \* submit: shortUrl and deployUrl of the 200 response
  gsData,       \* generation: what the model's API answered
  gsResult,     \* generation: how generateSite ended
  rtStorage,    \* rate limiter: this.storage in the twin run, which cleans up at other steps
  rtResult      \* rate limiter: the result of the last check in the twin run

inputs == <<entry, files, digest, deployId, required, nCreate, deployArg>>
uploadState == <<reqIdx, puts>>
pollState == <<startTime, maxTimeoutMs, delay, sleepMs, nStatus, nSleeps, deploy>>
replies == <<createReply, statusReply>>
single ==
  <<pc, inflight, putReplies, now, raised, result, inputs, uploadState, pollState, replies>>
conc == <<reqs, issued, wire>>
dg == <<dgFiles, dgSent>>
rl == <<rlStorage, rlNow, rlResult, rlGranted, rlSlots>>
lk == <<lkTable, lkCalls, lkEnv, lkGet, lkMap>>
sbPipeline == <<sbGenerated, sbUrl, sbTable, sbBody>>
sb == <<sbEndpoint, sbPc, sbLog, sbDeploy, sbTwinDeploy, sbResponse, sbTwinResponse, sbPipeline>>
gs == <<gsData, gsResult>>
rt == <<rtStorage, rtResult>>
vars == <<single, conc, dg, rl, lk, sb, gs, rt>>
\* What the actions of each part of the program leave alone.
outsideSingle == <<conc, dg, rl, lk, sb, gs, rt>>
outsideConc == <<single, dg, rl, lk, sb, gs, rt>>
outsideDg == <<single, conc, rl, lk, sb, gs, rt>>
outsideRl == <<single, conc, dg, lk, sb, gs, rt>>
outsideLk == <<single, conc, dg, rl, sb, gs, rt>>
outsideSb == <<single, conc, dg, rl, lk, gs, rt>>
outsideGs == <<single, conc, dg, rl, lk, sb, rt>>
outsideRt == <<single, conc, dg, lk, sb, gs>>

Requests == 1..MaxRequests
\* The locals of a deployFiles call that has not started.
NoRequest ==
  [pc |-> "idle", files |-> << >>, deployId |-> 0, required |-> << >>, reqIdx |-> 0,
   polls |-> 0, seen |-> << >>, result |-> NoResult]

InitSingle ==
  /\ pc = "idle"
  /\ entry = Undefined
  /\ files = << >>
  /\ digest = << >>
  /\ deployId = Undefined
  /\ required = [present |-> FALSE, list |-> << >>]
  /\ reqIdx = 0
  /\ puts = << >>
  /\ putReplies = << >>
  /\ inflight = {}
  /\ nCreate = 0
  /\ nStatus = 0
  /\ nSleeps = 0
  /\ startTime = 0
  /\ now = 0
  /\ maxTimeoutMs = 0
  /\ delay = 0
  /\ sleepMs = 0
  /\ deploy = NoDeploy
  /\ deployArg = NoDeploy
  /\ createReply = NoReply
  /\ statusReply = NoReply
  /\ raised = NoError
  /\ result = NoResult
InitConc ==
  /\ reqs = [r \in Requests |-> NoRequest]
  /\ issued = {}
  /\ wire = {}
\* No manifest submitted.
NoManifest == [sent |-> FALSE, files |-> << >>]
InitDg ==
  /\ dgFiles = << >>
  /\ dgSent = [r \in Requests |-> NoManifest]
\* new Map(): no identifier has an entry.
Identifiers == {"203.0.113.7", "unknown"}
NoEntry == [count |-> 0, resetTime |-> 0]
NoCheck ==
  [identifier |-> Undefined, at |-> 0, success |-> FALSE, remaining |-> 0,
   resetTime |-> 0, retryAfter |-> 0, count |-> 0]
NoSlot == [pc |-> "idle", result |-> NoCheck]
InitRl ==
  /\ rlStorage = [i \in Identifiers |-> NoEntry]
  /\ rlNow = 0
  /\ rlResult = NoCheck
  /\ rlGranted = [i \in Identifiers |-> [opened |-> 0, n |-> 0]]
  /\ rlSlots = [r \in Requests |-> NoSlot]
InitRt ==
  /\ rtStorage = [i \in Identifiers |-> NoEntry]
  /\ rtResult = NoCheck
\* A createShortLink call that has not started.
NoLinkResult == [kind |-> "none", slug |-> << >>, shortUrl |-> << >>, error |-> ""]
NoCall ==
  [pc |-> "idle", attempt |-> 0, slug |-> << >>, longUrl |-> "", tries |-> 0,
   inserted |-> {}, result |-> NoLinkResult]
NoAnswer == [slug |-> << >>, status |-> 0, location |-> "", lookups |-> 0]
InitLk ==
  /\ lkTable = {}
  /\ lkCalls = [c \in Requests |-> NoCall]
  /\ lkEnv = Undefined
  /\ lkGet = NoAnswer
  /\ lkMap = {}
\* No request submitted.
NoResponse == [status |-> 0, error |-> "", message |-> << >>]
NoOutcome == [kind |-> "none", stage |-> "", status |-> 0, body |-> ""]
\* generateSite not called.
NoFiles == [n \in {} |-> [text |-> {}, attrs |-> {}, bytes |-> 0]]
NoData == [ok |-> FALSE, wellFormed |-> FALSE, files |-> NoFiles]
NoGeneration == [kind |-> "none", message |-> ""]
InitGs ==
  /\ gsData = NoData
  /\ gsResult = NoGeneration
InitSb ==
  /\ sbEndpoint = "route"
  /\ sbPc = "idle"
  /\ sbLog = << >>
  /\ sbDeploy = NoOutcome
  /\ sbTwinDeploy = NoOutcome
  /\ sbResponse = NoResponse
  /\ sbTwinResponse = NoResponse
  /\ sbGenerated = NoData @@ NoGeneration
  /\ sbUrl = Undefined
  /\ sbTable = {}
  /\ sbBody = [shortUrl |-> << >>, deployUrl |-> Undefined]
Init == InitSingle /\ InitConc /\ InitDg /\ InitRl /\ InitLk /\ InitSb /\ InitGs /\ InitRt

\* Variant of Awaited: the call is not awaited and stays in flight.
Awaited_Missing(fl, call) == fl

\* `await fetch(...)`: the call is in flight until its response arrives.
Sent(fl, call) == fl \cup {call}
Awaited(fl, call) == fl \ {call}

\* Variant of IsReady: the state compared with a misspelt constant.
IsReady_Typo(d) == d.state = "READY"

\* deploy.state === 'ready'
IsReady(d) == d.state = "ready"
\* Variant of IsFailed: every state that is not known to be in progress is
\* taken as a failure.
IsFailed_Unknown(d) == d.state \notin {"ready", "building"}

\* Variant of IsFailed: only 'error' is taken as a failure.
IsFailed_OnlyError(d) == d.state = "error"

\* deploy.state === 'error' || deploy.state === 'failed'
IsFailed(d) == d.state = "error" \/ d.state = "failed"

\* ---------------------------------------------- continuations of a handler
\* Each runs synchronously to the next await or to the end of the call.

\* throw: out of a step, through the catch block of deployFiles if it runs.
Throw(fl, error) ==
  /\ pc' = "done"
  /\ inflight' = fl
  /\ raised' = error
  /\ result' = [kind |-> "throw", url |-> Undefined, deploy |-> NoDeploy,
                error |-> IF entry' = "deployFiles" THEN DeployFilesCatch(error)
                          ELSE error]

Return(fl, url, d) ==
  /\ pc' = "done"
  /\ inflight' = fl
  /\ raised' = raised
  /\ result' = [kind |-> "return", url |-> url, deploy |-> d, error |-> NoError]

Fetch(fl, call, at) ==
  /\ pc' = at
  /\ inflight' = Sent(fl, call)
  /\ UNCHANGED <<raised, result>>

\* Variant of PollLoopTop: the loop stops when the next sleep would not fit
\* into the budget.
PollLoopTop_Early(fl) ==
  IF now' - startTime' < maxTimeoutMs' - TimerMs(delay')
  THEN /\ nStatus' = nStatus + 1
       /\ Fetch(fl, <<"status", nStatus + 1>>, "status")
  ELSE /\ nStatus' = nStatus
       /\ Throw(fl, Err("NETLIFY_DEPLOY_TIMEOUT"))

\* Variant of PollLoopTop: with the budget used up nothing is thrown and the
\* call never settles.
PollLoopTop_NoTimeout(fl) ==
  IF now' - startTime' < maxTimeoutMs'
  THEN /\ nStatus' = nStatus + 1
       /\ Fetch(fl, <<"status", nStatus + 1>>, "status")
  ELSE /\ nStatus' = nStatus
       /\ pc' = "blocked"
       /\ inflight' = fl
       /\ UNCHANGED <<raised, result>>

\* Variant of PollLoopTop: a query is still started with the elapsed time
\* equal to the budget.
PollLoopTop_Inclusive(fl) ==
  IF now' - startTime' <= maxTimeoutMs'
  THEN /\ nStatus' = nStatus + 1
       /\ Fetch(fl, <<"status", nStatus + 1>>, "status")
  ELSE /\ nStatus' = nStatus
       /\ Throw(fl, Err("NETLIFY_DEPLOY_TIMEOUT"))

\* The head of pollUntilReady's while loop.
PollLoopTop(fl) ==
  IF now' - startTime' < maxTimeoutMs'
  THEN /\ nStatus' = nStatus + 1
       /\ Fetch(fl, <<"status", nStatus + 1>>, "status")
  ELSE /\ nStatus' = nStatus
       /\ Throw(fl, Err("NETLIFY_DEPLOY_TIMEOUT"))

\* Entry of pollUntilReady(deployId, budget).
PollStart(fl, budget) ==
  /\ startTime' = now'
  /\ maxTimeoutMs' = budget
  /\ delay' = InitialDelayQ
  /\ UNCHANGED <<sleepMs, nSleeps, deploy>>
  /\ PollLoopTop(fl)

\* Variant of PollReturns: the URL is returned without the empty test.
PollReturns_NoCheck(fl, d) ==
  IF entry' = "deployFiles"
  THEN Return(fl, getDeployUrl(d), NoDeploy)
  ELSE Return(fl, Undefined, d)

\* pollUntilReady returned payload d: steps 3 and 4 of deployFiles.
PollReturns(fl, d) ==
  IF entry' = "deployFiles"
  THEN LET deployUrl == getDeployUrl(d)
       IN  IF ~Truthy(deployUrl)
           THEN Throw(fl, Err("NETLIFY_NO_URL"))
           ELSE Return(fl, deployUrl, NoDeploy)
  ELSE Return(fl, Undefined, d)

\* Variant of UploadLoop: an entry without a file is skipped, not fatal.
RECURSIVE UploadLoop_SkipMissing(_, _)
UploadLoop_SkipMissing(fl, i) ==
  IF i > Len(required'.list)
  THEN /\ reqIdx' = i
       /\ puts' = puts
       /\ IF entry' = "deployFiles"
          THEN PollStart(fl, DefaultMaxTimeoutMs)
          ELSE UNCHANGED pollState /\ Return(fl, Undefined, NoDeploy)
  ELSE LET requiredSha == required'.list[i]
           filePaths == ShaToFiles(files', requiredSha)
           fileContent == FindContent(files', requiredSha)
       IN  IF NoFilePaths(filePaths) \/ NoFileContent(fileContent)
           THEN UploadLoop_SkipMissing(fl, i + 1)
           ELSE /\ reqIdx' = i
                /\ UNCHANGED pollState
                /\ puts' = Append(puts, [deployId |-> deployId', sha |-> requiredSha,
                                         path |-> filePaths[1], body |-> fileContent])
                /\ Fetch(fl, <<"put", Len(puts) + 1>>, "put")

\* uploadRequiredFiles's loop from entry i of the required list.
UploadLoop(fl, i) ==
  IF i > Len(required'.list)
  THEN /\ reqIdx' = i
       /\ puts' = puts
       /\ IF entry' = "deployFiles"
          THEN PollStart(fl, DefaultMaxTimeoutMs)
          ELSE UNCHANGED pollState /\ Return(fl, Undefined, NoDeploy)
  ELSE LET requiredSha == required'.list[i]
           filePaths == ShaToFiles(files', requiredSha)
           fileContent == FindContent(files', requiredSha)
       IN  /\ reqIdx' = i
           /\ UNCHANGED pollState
           /\ IF NoFilePaths(filePaths) \/ NoFileContent(fileContent)
              THEN /\ puts' = puts
                   /\ Throw(fl, Err("NETLIFY_REQUIRED_UPLOAD_FAILED"))
              ELSE /\ puts' = Append(puts, [deployId |-> deployId', sha |-> requiredSha,
                                            path |-> filePaths[1], body |-> fileContent])
                   /\ Fetch(fl, <<"put", Len(puts) + 1>>, "put")

\* ------------------------------------------------------------------ actions
\* deployFiles(files): builds the digest and posts it.
CallDeployFiles(fs) ==
  /\ pc = "idle"
  /\ entry' = "deployFiles"
  /\ files' = fs
  /\ digest' = BuildDigest(fs, Len(fs))
  /\ nCreate' = nCreate + 1
  /\ Fetch(inflight, <<"create", nCreate + 1>>, "create")
  /\ UNCHANGED <<deployId, required, putReplies, now, uploadState, pollState, replies>>
  /\ UNCHANGED deployArg

\* uploadRequiredFiles(deployId, requiredShaList, files), called directly.
CallUploadRequiredFiles(id, req, fs) ==
  /\ pc = "idle"
  /\ entry' = "uploadRequiredFiles"
  /\ files' = fs
  /\ deployId' = id
  /\ required' = [present |-> TRUE, list |-> req]
  /\ UNCHANGED <<digest, nCreate, putReplies, now, replies, deployArg>>
  /\ UploadLoop(inflight, 1)

\* pollUntilReady(deployId, maxTimeoutMs), called directly.
CallPollUntilReady(id, budget) ==
  /\ pc = "idle"
  /\ entry' = "pollUntilReady"
  /\ deployId' = id
  /\ UNCHANGED <<files, digest, required, nCreate, putReplies, now, uploadState, replies>>
  /\ UNCHANGED deployArg
  /\ PollStart(inflight, budget)

\* Variant of CreateResponds: a 429 answer is retried once.
CreateResponds_RetryRateLimit(status, body, id, req) ==
  /\ pc = "create"
  /\ UNCHANGED <<entry, files, digest, putReplies, now, statusReply, deployArg>>
  /\ createReply' = Reply(status, body)
  /\ LET fl == Awaited(inflight, <<"create", nCreate>>)
     IN  IF status = 429 /\ nCreate < 2
         THEN /\ nCreate' = nCreate + 1
              /\ UNCHANGED <<deployId, required, uploadState, pollState>>
              /\ Fetch(fl, <<"create", nCreate + 1>>, "create")
         ELSE IF ~Ok(status)
         THEN /\ UNCHANGED <<nCreate, deployId, required, uploadState, pollState>>
              /\ Throw(fl, CreateError(status, body))
         ELSE /\ UNCHANGED nCreate
              /\ deployId' = id
              /\ required' = req
              /\ IF req.present /\ Len(req.list) > 0
                 THEN UploadLoop(fl, 1)
                 ELSE /\ UNCHANGED uploadState
                      /\ PollStart(fl, DefaultMaxTimeoutMs)

\* Variant of CreateResponds: the required list is iterated without the
\* guard, and iterating an absent list is a TypeError.
CreateResponds_NoGuard(status, body, id, req) ==
  /\ pc = "create"
  /\ UNCHANGED <<entry, files, digest, nCreate, putReplies, now, statusReply, deployArg>>
  /\ createReply' = Reply(status, body)
  /\ LET fl == Awaited(inflight, <<"create", nCreate>>)
     IN  IF ~Ok(status)
         THEN /\ UNCHANGED <<deployId, required, uploadState, pollState>>
              /\ Throw(fl, CreateError(status, body))
         ELSE /\ deployId' = id
              /\ required' = req
              /\ IF req.present
                 THEN UploadLoop(fl, 1)
                 ELSE /\ UNCHANGED <<uploadState, pollState>>
                      /\ Throw(fl, [name |-> "TypeError",
                                    message |-> <<"requiredShaList is not iterable">>])

\* getDeployUrl(deploy), called directly: it returns at once.
CallGetDeployUrl(d) ==
  /\ pc = "idle"
  /\ entry' = "getDeployUrl"
  /\ deployArg' = d
  /\ UNCHANGED <<files, digest, deployId, required, nCreate>>
  /\ UNCHANGED <<putReplies, now, uploadState, pollState, replies>>
  /\ Return(inflight, getDeployUrl(d), NoDeploy)

\* The create-deployment call is answered with a status and a body.
CreateResponds(status, body, id, req) ==
  /\ pc = "create"
  /\ UNCHANGED <<entry, files, digest, nCreate, putReplies, now, statusReply, deployArg>>
  /\ createReply' = Reply(status, body)
  /\ LET fl == Awaited(inflight, <<"create", nCreate>>)
     IN  IF ~Ok(status)
         THEN /\ UNCHANGED <<deployId, required, uploadState, pollState>>
              /\ Throw(fl, CreateError(status, body))
         ELSE /\ deployId' = id
              /\ required' = req
              /\ IF req.present /\ Len(req.list) > 0
                 THEN UploadLoop(fl, 1)
                 ELSE /\ UNCHANGED uploadState
                      /\ PollStart(fl, DefaultMaxTimeoutMs)

\* Variant of PutResponds: the status of the answer is not looked at.
PutResponds_IgnoreStatus(status) ==
  /\ pc = "put"
  /\ UNCHANGED <<inputs, now, replies>>
  /\ putReplies' = Append(putReplies, status)
  /\ UploadLoop(Awaited(inflight, <<"put", Len(puts)>>), reqIdx + 1)

\* A PUT is answered.
PutResponds(status) ==
  /\ pc = "put"
  /\ UNCHANGED <<inputs, now, replies>>
  /\ putReplies' = Append(putReplies, status)
  /\ LET fl == Awaited(inflight, <<"put", Len(puts)>>)
     IN  IF ~Ok(status)
         THEN /\ UNCHANGED <<uploadState, pollState>>
              /\ Throw(fl, Err("NETLIFY_REQUIRED_UPLOAD_FAILED"))
         ELSE UploadLoop(fl, reqIdx + 1)

\* Variant of StatusResponds: a non-success answer is slept on and retried.
StatusResponds_RetryHttp(status, body, d, lat) ==
  /\ pc = "status"
  /\ UNCHANGED <<inputs, putReplies, uploadState, startTime, maxTimeoutMs, delay, nStatus>>
  /\ UNCHANGED createReply
  /\ statusReply' = Reply(status, body)
  /\ now' = now + lat
  /\ LET fl == Awaited(inflight, <<"status", nStatus>>)
     IN  IF Ok(status) /\ IsReady(d)
         THEN /\ deploy' = d
              /\ UNCHANGED <<sleepMs, nSleeps>>
              /\ PollReturns(fl, d)
         ELSE IF Ok(status) /\ IsFailed(d)
         THEN /\ deploy' = d
              /\ UNCHANGED <<sleepMs, nSleeps>>
              /\ Throw(fl, Err("NETLIFY_DEPLOY_FAILED"))
         ELSE /\ deploy' = IF Ok(status) THEN d ELSE NoDeploy
              /\ sleepMs' = TimerMs(delay)
              /\ nSleeps' = nSleeps + 1
              /\ pc' = "sleep"
              /\ inflight' = fl
              /\ UNCHANGED <<raised, result>>

\* A status query is answered after lat milliseconds.
StatusResponds(status, body, d, lat) ==
  /\ pc = "status"
  /\ UNCHANGED <<inputs, putReplies, uploadState, startTime, maxTimeoutMs, delay, nStatus>>
  /\ UNCHANGED createReply
  /\ statusReply' = Reply(status, body)
  /\ now' = now + lat
  /\ LET fl == Awaited(inflight, <<"status", nStatus>>)
     IN  IF ~Ok(status)
         THEN /\ UNCHANGED <<sleepMs, nSleeps, deploy>>
              /\ Throw(fl, PollError(status, body))
         ELSE /\ deploy' = d
              /\ IF IsReady(d)
                 THEN /\ UNCHANGED <<sleepMs, nSleeps>>
                      /\ PollReturns(fl, d)
                 ELSE IF IsFailed(d)
                 THEN /\ UNCHANGED <<sleepMs, nSleeps>>
                      /\ Throw(fl, Err("NETLIFY_DEPLOY_FAILED"))
                 ELSE /\ sleepMs' = TimerMs(delay)
                      /\ nSleeps' = nSleeps + 1
                      /\ pc' = "sleep"
                      /\ inflight' = fl
                      /\ UNCHANGED <<raised, result>>

\* The timer of the sleep fires, late milliseconds late; the delay grows and
\* the loop condition is evaluated.
SleepEnds(late) ==
  /\ pc = "sleep"
  /\ UNCHANGED <<inputs, putReplies, uploadState, startTime, maxTimeoutMs, nSleeps, replies>>
  /\ now' = now + sleepMs + late
  /\ sleepMs' = 0
  /\ delay' = NextDelay(delay)
  /\ deploy' = NoDeploy
  /\ PollLoopTop(inflight)

\* fetch rejects (the network fails): a TypeError reaches the caller.
FetchRejects ==
  /\ pc \in {"create", "put", "status"}
  /\ UNCHANGED <<inputs, now, uploadState, pollState, replies>>
  /\ putReplies' = putReplies
  /\ Throw({}, FetchRejected)

\* The text of an answer is read only when the answer is not ok.
BodiesOf(status) == IF Ok(status) THEN {""} ELSE Bodies

CreateAnswers ==
  [present : {TRUE}, list : RequiredLists] \cup {[present |-> FALSE, list |-> << >>]}

Next ==
  \/ /\ pc = "idle"
     /\ UNCHANGED outsideSingle
     /\ \E fs \in DeployedFileSets : CallDeployFiles(fs)
  \/ /\ pc = "idle"
     /\ UNCHANGED outsideSingle
     /\ \E id \in DeployIds, req \in RequiredLists, fs \in FileSets :
          CallUploadRequiredFiles(id, req, fs)
  \/ /\ pc = "idle"
     /\ UNCHANGED outsideSingle
     /\ \E id \in DeployIds, budget \in Budgets : CallPollUntilReady(id, budget)
  \/ /\ pc = "idle"
     /\ UNCHANGED outsideSingle
     /\ \E d \in DeployObjects : CallGetDeployUrl(d)
  \/ /\ pc = "create"
     /\ UNCHANGED outsideSingle
     /\ \E status \in HttpStatuses, id \in DeployIds, req \in CreateAnswers :
          \E body \in BodiesOf(status) :
          CreateResponds(status, body, id, req)
  \/ /\ pc = "put"
     /\ UNCHANGED outsideSingle
     /\ \E status \in PlainStatuses : PutResponds(status)
  \/ /\ pc = "status"
     /\ UNCHANGED outsideSingle
     /\ \E status \in PlainStatuses, d \in Payloads(deployId), lat \in Latencies :
          \E body \in BodiesOf(status) :
          StatusResponds(status, body, d, lat)
  \/ /\ pc = "sleep"
     /\ UNCHANGED outsideSingle
     /\ \E late \in TimerLate : SleepEnds(late)
  \/ /\ FetchRejects
     /\ UNCHANGED outsideSingle

Spec == Init /\ [][Next]_vars

\* The required lists answered to the create call below: absent, empty, one
\* entry, two entries, and one no file has.
LiveAnswers ==
  { [present |-> FALSE, list |-> << >>],
    [present |-> TRUE, list |-> << >>],
    [present |-> TRUE, list |-> << sha1("<html></html>") >>],
    [present |-> TRUE, list |-> << sha1("<html></html>"), sha1("body { margin: 0; }") >>],
    [present |-> TRUE, list |-> << "non-existent-sha" >>] }

\* deployFiles calls only, where every provider call is answered or rejected
\* and every timer fires.
NextLive ==
  \/ /\ pc = "idle"
     /\ UNCHANGED outsideSingle
     /\ \E fs \in DeployedFileSets : CallDeployFiles(fs)
  \/ /\ pc = "create"
     /\ UNCHANGED outsideSingle
     /\ \E status \in HttpStatuses, id \in {"deploy-123"}, req \in LiveAnswers :
          \E body \in BodiesOf(status) :
          CreateResponds(status, body, id, req)
  \/ /\ pc = "put"
     /\ UNCHANGED outsideSingle
     /\ \E status \in PlainStatuses : PutResponds(status)
  \/ /\ pc = "status"
     /\ UNCHANGED outsideSingle
     /\ \E status \in PlainStatuses, d \in Payloads(deployId), lat \in Latencies :
          \E body \in BodiesOf(status) :
          StatusResponds(status, body, d, lat)
  \/ /\ pc = "sleep"
     /\ UNCHANGED outsideSingle
     /\ \E late \in TimerLate : SleepEnds(late)
  \/ /\ FetchRejects
     /\ UNCHANGED outsideSingle

SpecLive == Init /\ [][NextLive]_vars /\ WF_vars(NextLive)

\* ------------------------------------------------ concurrent POST requests
\* Each POST request builds its own NetlifyClient and awaits deployFiles; the
\* requests interleave at their awaits. The clock of pollUntilReady is an
\* input here: after a sleep the budget is either left or used up.
ConcFileSets ==
  { << [name |-> <<"a">>, content |-> "<html></html>"] >>,
    << [name |-> <<"a">>, content |-> "<html></html>"],
       [name |-> <<"b">>, content |-> "body { margin: 0; }"] >> }
ConcRequiredLists ==
  { << >>, << sha1("<html></html>"), sha1("body { margin: 0; }") >> }
ConcStatuses == {200, 500}
\* Status payloads, without the id: the provider answers about the id asked.
ConcPayloads ==
  { [state |-> "building", ssl_url |-> Undefined, url |-> Undefined,
     deploy_url |-> Undefined],
    [state |-> "error", ssl_url |-> Undefined, url |-> Undefined,
     deploy_url |-> Undefined],
    [state |-> "ready", ssl_url |-> "https://a", url |-> Undefined,
     deploy_url |-> Undefined] }
NoPayload ==
  [state |-> Undefined, ssl_url |-> Undefined, url |-> Undefined,
   deploy_url |-> Undefined]

\* The id the provider issues to the create call of request r: a new one for
\* each call; the client only copies it.
ProviderId(r) == 100 + r

\* What a request reads at an await: an answer, a rejection or the clock.
Seen(kind, status, body, req, d) ==
  [kind |-> kind, status |-> status, body |-> IF Ok(status) THEN "" ELSE body,
   required |-> req, payload |-> d]

\* Variant of TargetOf: the id is read from a place every request writes,
\* the id the provider issued last.
TargetOf_LastIssued(rec, iss) ==
  CHOOSE id \in { i.id : i \in iss } : \A i \in iss : i.id <= id

\* The id in the path of an upload or status call: deployResponse.id, a
\* local of the deployFiles call.
TargetOf(rec, iss) == rec.deployId

\* The call a request has sent when it is suspended with locals rec.
CallsOf(r, rec, iss) ==
  IF rec.pc = "put"
  THEN {[req |-> r, kind |-> "put", target |-> TargetOf(rec, iss), n |-> rec.reqIdx]}
  ELSE IF rec.pc = "status"
  THEN {[req |-> r, kind |-> "status", target |-> TargetOf(rec, iss), n |-> rec.polls]}
  ELSE {}

ConcThrow(rec, error) ==
  [rec EXCEPT !.pc = "done",
              !.result = [kind |-> "throw", url |-> Undefined, deploy |-> NoDeploy,
                          error |-> DeployFilesCatch(error)]]
ConcReturn(rec, url) ==
  [rec EXCEPT !.pc = "done",
              !.result = [kind |-> "return", url |-> url, deploy |-> NoDeploy,
                          error |-> NoError]]
\* pollUntilReady sends a status query.
ConcPoll(rec) == [rec EXCEPT !.pc = "status", !.polls = @ + 1]
\* uploadRequiredFiles's loop at entry i, then pollUntilReady.
ConcUpload(rec, i) ==
  IF i > Len(rec.required)
  THEN ConcPoll([rec EXCEPT !.reqIdx = i])
  ELSE LET requiredSha == rec.required[i]
           filePaths == ShaToFiles(rec.files, requiredSha)
           fileContent == FindContent(rec.files, requiredSha)
       IN  IF NoFilePaths(filePaths) \/ NoFileContent(fileContent)
           THEN ConcThrow([rec EXCEPT !.reqIdx = i], Err("NETLIFY_REQUIRED_UPLOAD_FAILED"))
           ELSE [rec EXCEPT !.reqIdx = i, !.pc = "put"]

\* Request r runs to its next await with locals rec.
Suspend(r, rec) ==
  /\ reqs' = [reqs EXCEPT ![r] = rec]
  /\ wire' = wire \cup CallsOf(r, rec, issued')
  /\ UNCHANGED outsideConc

\* POST: new NetlifyClient(...).deployFiles(siteFiles.files)
PostDeploy(r, fs) ==
  /\ reqs[r].pc = "idle"
  /\ reqs' = [reqs EXCEPT ![r] = [NoRequest EXCEPT !.pc = "create", !.files = fs]]
  /\ wire' = wire \cup {[req |-> r, kind |-> "create", target |-> 0, n |-> 0]}
  /\ UNCHANGED <<issued, outsideConc>>

\* The create-deployment call of r is answered; an accepted one gets a new id.
ConcCreateResponds(r, status, body, req) ==
  /\ reqs[r].pc = "create"
  /\ LET rec == [reqs[r] EXCEPT
                   !.seen = Append(@, Seen("create", status, body, req, NoPayload))]
     IN  IF ~Ok(status)
         THEN /\ issued' = issued
              /\ Suspend(r, ConcThrow(rec, CreateError(status, body)))
         ELSE /\ issued' = issued \cup {[id |-> ProviderId(r), to |-> r]}
              /\ LET got == [rec EXCEPT !.deployId = ProviderId(r), !.required = req]
                 IN  IF Len(req) > 0
                     THEN Suspend(r, ConcUpload(got, 1))
                     ELSE Suspend(r, ConcPoll(got))

ConcPutResponds(r, status) ==
  /\ reqs[r].pc = "put"
  /\ issued' = issued
  /\ LET rec == [reqs[r] EXCEPT
                   !.seen = Append(@, Seen("put", status, "", << >>, NoPayload))]
     IN  IF ~Ok(status)
         THEN Suspend(r, ConcThrow(rec, Err("NETLIFY_REQUIRED_UPLOAD_FAILED")))
         ELSE Suspend(r, ConcUpload(rec, rec.reqIdx + 1))

ConcStatusResponds(r, status, body, d) ==
  /\ reqs[r].pc = "status"
  /\ issued' = issued
  /\ LET rec == [reqs[r] EXCEPT
                   !.seen = Append(@, Seen("status", status, body, << >>, d))]
     IN  IF ~Ok(status)
         THEN Suspend(r, ConcThrow(rec, PollError(status, body)))
         ELSE IF IsReady(d)
         THEN LET deployUrl == getDeployUrl(d)
              IN  IF ~Truthy(deployUrl)
                  THEN Suspend(r, ConcThrow(rec, Err("NETLIFY_NO_URL")))
                  ELSE Suspend(r, ConcReturn(rec, deployUrl))
         ELSE IF IsFailed(d)
         THEN Suspend(r, ConcThrow(rec, Err("NETLIFY_DEPLOY_FAILED")))
         ELSE Suspend(r, [rec EXCEPT !.pc = "sleep"])

\* The sleep of r ends and the loop condition reads the clock.
ConcSleepEnds(r, expired) ==
  /\ reqs[r].pc = "sleep"
  /\ expired \/ reqs[r].polls < MaxPolls
  /\ issued' = issued
  /\ LET rec == [reqs[r] EXCEPT
                   !.seen = Append(@, Seen(IF expired THEN "expired" ELSE "in time",
                                           0, "", << >>, NoPayload))]
     IN  IF expired
         THEN Suspend(r, ConcThrow(rec, Err("NETLIFY_DEPLOY_TIMEOUT")))
         ELSE Suspend(r, ConcPoll(rec))

\* The fetch r awaits rejects.
ConcFetchRejects(r) ==
  /\ reqs[r].pc \in {"create", "put", "status"}
  /\ issued' = issued
  /\ Suspend(r, ConcThrow([reqs[r] EXCEPT
                             !.seen = Append(@, Seen("rejected", 0, "", << >>, NoPayload))],
                          FetchRejected))

NextConc ==
  \/ \E r \in Requests, fs \in ConcFileSets : PostDeploy(r, fs)
  \/ \E r \in Requests, status \in ConcStatuses, req \in ConcRequiredLists :
       ConcCreateResponds(r, status, "boom", req)
  \/ \E r \in Requests, status \in ConcStatuses : ConcPutResponds(r, status)
  \/ \E r \in Requests, status \in ConcStatuses, d \in ConcPayloads :
       ConcStatusResponds(r, status, "boom", d)
  \/ \E r \in Requests, expired \in BOOLEAN : ConcSleepEnds(r, expired)
  \/ \E r \in Requests : ConcFetchRejects(r)

SpecConc == Init /\ [][NextConc]_vars

\* ------------------------------------------------ createDeployDigest alone
\* Calls of createDeployDigest on one FileSet: each builds the digest and
\* posts it as the `files` of the request body.
SubmitDigest(r) ==
  /\ ~dgSent[r].sent
  /\ dgSent' = [dgSent EXCEPT ![r] = [sent |-> TRUE,
                                      files |-> BuildDigest(dgFiles, Len(dgFiles))]]
  /\ UNCHANGED <<dgFiles, outsideDg>>

InitDigest ==
  /\ InitSingle /\ InitConc /\ InitRl /\ InitLk /\ InitSb /\ InitGs /\ InitRt
  /\ dgFiles \in FileSets
  /\ dgSent = [r \in Requests |-> NoManifest]

NextDigest == \E r \in Requests : SubmitDigest(r)

SpecDigest == InitDigest /\ [][NextDigest]_vars

\* ----------------------------------------------------------- rate limiter
\* InMemoryRateLimit with the defaults of the module's instance. An ent
\* with count 0 stands for an identifier the map does not hold.
maxRequests == 8
windowMs == 3600000
\* The instants at which the clock is read.
Instants == {0, 1, windowMs - 1, windowMs, windowMs + 1, 2 * windowMs}

\* Math.ceil(ms / 1000)
CeilSeconds(ms) == (ms + 999) \div 1000

\* Variant of Cleanup: every entry is deleted.
Cleanup_All(store, tNow) == [i \in Identifiers |-> NoEntry]

\* Variant of Cleanup: an entry is deleted one millisecond before it expires.
Cleanup_Early(store, tNow) ==
  [i \in Identifiers |->
     IF store[i].count > 0 /\ tNow >= store[i].resetTime - 1 THEN NoEntry ELSE store[i]]

\* cleanup(now): expired entries are deleted.
Cleanup(store, tNow) ==
  [i \in Identifiers |->
     IF store[i].count > 0 /\ tNow >= store[i].resetTime THEN NoEntry ELSE store[i]]

\* Variant of Increment: the write of the new count is lost.
Increment_Lost(ent) == ent

\* entry.count++
Increment(ent) == [ent EXCEPT !.count = @ + 1]

\* Variant of Exceeded: one check more than the quota is let through.
Exceeded_OffByOne(ent) == ent.count > maxRequests

\* entry.count >= this.maxRequests
Exceeded(ent) == ent.count >= maxRequests

\* check(identifier) at time tNow; clean: Math.random() < 0.01. Gives the map
\* after the call and the object returned.
Check(store, identifier, tNow, clean) ==
  LET ent == store[identifier]
      kept == IF clean THEN Cleanup(store, tNow) ELSE store
  IN  IF ent.count = 0 \/ tNow >= ent.resetTime
      THEN LET newEntry == [count |-> 1, resetTime |-> tNow + windowMs]
           IN  [storage |-> [kept EXCEPT ![identifier] = newEntry],
                result |-> [identifier |-> identifier, at |-> tNow, success |-> TRUE,
                            remaining |-> maxRequests - 1,
                            resetTime |-> newEntry.resetTime, retryAfter |-> 0,
                            count |-> newEntry.count]]
      ELSE IF Exceeded(ent)
      THEN [storage |-> kept,
            result |-> [identifier |-> identifier, at |-> tNow, success |-> FALSE,
                        remaining |-> 0, resetTime |-> ent.resetTime,
                        retryAfter |-> CeilSeconds(ent.resetTime - tNow),
                        count |-> ent.count]]
      ELSE LET bumped == Increment(ent)
           IN  [storage |-> [kept EXCEPT ![identifier] = bumped],
                result |-> [identifier |-> identifier, at |-> tNow, success |-> TRUE,
                            remaining |-> maxRequests - bumped.count,
                            resetTime |-> ent.resetTime, retryAfter |-> 0,
                            count |-> bumped.count]]

\* The allowed checks of the window an allowed check at time tNow falls into.
Granted(g, tNow) ==
  IF g.n = 0 \/ tNow >= g.opened + windowMs
  THEN [opened |-> tNow, n |-> 1]
  ELSE [g EXCEPT !.n = @ + 1]

\* checkRateLimit(identifier), from the call to the returned promise.
RlCheck(identifier, clean) ==
  LET out == Check(rlStorage, identifier, rlNow, clean)
  IN  /\ rlStorage' = out.storage
      /\ rlResult' = out.result
      /\ rlGranted' = IF out.result.success
                      THEN [rlGranted EXCEPT ![identifier] = Granted(@, rlNow)]
                      ELSE rlGranted
      /\ UNCHANGED <<rlNow, rlSlots, outsideRl>>

\* Time passes.
RlTick(t) ==
  /\ t > rlNow
  /\ rlNow' = t
  /\ UNCHANGED <<rlStorage, rlResult, rlGranted, rlSlots, outsideRl>>

NextRate ==
  \/ \E identifier \in Identifiers, clean \in BOOLEAN : RlCheck(identifier, clean)
  \/ \E t \in Instants : RlTick(t)

SpecRate == Init /\ [][NextRate]_vars

\* Concurrent POST requests of one client. A request calls checkRateLimit as
\* soon as it is handled; check has no await, so it runs from Date.now() to
\* its return in one turn, and the request resumes with the result later.
RlCall(r, identifier, clean) ==
  /\ rlSlots[r].pc = "idle"
  /\ LET out == Check(rlStorage, identifier, rlNow, clean)
     IN  /\ rlStorage' = out.storage
         /\ rlResult' = out.result
         /\ rlGranted' = IF out.result.success
                         THEN [rlGranted EXCEPT ![identifier] = Granted(@, rlNow)]
                         ELSE rlGranted
         /\ rlSlots' = [rlSlots EXCEPT ![r] = [pc |-> "awaiting", result |-> out.result]]
  /\ UNCHANGED <<rlNow, outsideRl>>

\* The request resumes after `await checkRateLimit(clientIP)` and answers.
RlResume(r) ==
  /\ rlSlots[r].pc = "awaiting"
  /\ rlSlots' = [rlSlots EXCEPT ![r] = NoSlot]
  /\ UNCHANGED <<rlStorage, rlNow, rlResult, rlGranted, outsideRl>>

NextRateConc ==
  \/ \E r \in Requests, clean \in BOOLEAN : RlCall(r, "203.0.113.7", clean)
  \/ \E r \in Requests : RlResume(r)
  \/ \E t \in {1, windowMs} : RlTick(t)

SpecRateConc == Init /\ [][NextRateConc]_vars

\* The same checks at the same instants on two limiters: Math.random() < 0.01
\* comes out as clean in the one and as cleanTwin in the other.
RtCheck(identifier, clean, cleanTwin) ==
  LET out == Check(rlStorage, identifier, rlNow, clean)
      twin == Check(rtStorage, identifier, rlNow, cleanTwin)
  IN  /\ rlStorage' = out.storage
      /\ rlResult' = out.result
      /\ rlGranted' = IF out.result.success
                      THEN [rlGranted EXCEPT ![identifier] = Granted(@, rlNow)]
                      ELSE rlGranted
      /\ rtStorage' = twin.storage
      /\ rtResult' = twin.result
      /\ UNCHANGED <<rlNow, rlSlots, outsideRt>>

\* Time passes for both.
RtTick(t) ==
  /\ t > rlNow
  /\ rlNow' = t
  /\ UNCHANGED <<rlStorage, rlResult, rlGranted, rlSlots, rt, outsideRt>>

NextRateTwin ==
  \/ \E identifier \in Identifiers, clean, cleanTwin \in BOOLEAN :
       RtCheck(identifier, clean, cleanTwin)
  \/ \E t \in Instants : RtTick(t)

SpecRateTwin == Init /\ [][NextRateTwin]_vars

\* ------------------------------------------------------------ short links
\* createShortLink and the redirect endpoint on the link table, and the
\* store-link function on its Map. A slug is the sequence of its characters.
maxRetries == 5
SlugAlphabet ==
  {"a", "b", "c", "d", "e", "f", "g", "h", "i", "j", "k", "l", "m", "n", "o", "p", "q",
   "r", "s", "t", "u", "v", "w", "x", "y", "z", "0", "1", "2", "3", "4", "5", "6", "7",
   "8", "9"}
\* The characters Math.random() picks below: one character for a whole slug.
SlugDraws == {"a", "7"}
LongUrls == {"https://site-a.netlify.app", "https://site-b.netlify.app"}
BaseUrlEnv == {Undefined, "https://short.example"}
\* The message of the error a conflicting insert raises: as the database
\* words it, and as the client library words it.
ConflictMessages ==
  {"UNIQUE constraint failed: Link.slug",
   "Unique constraint failed on the fields: (slug)"}
DbDown == "Cannot reach database server"

\* generateSlug(length) when every draw picks ch.
generateSlug(length, ch) == [i \in 1..length |-> ch]

\* Variant of SlugLength: every attempt uses six characters.
SlugLength_Fixed(attempt) == 6

\* 6 + attempt
SlugLength(attempt) == 6 + attempt

\* Variant of IsUniqueViolation: every error of the insert is retried.
IsUniqueViolation_Any(message) == TRUE

\* error.message.includes('UNIQUE constraint failed')
IsUniqueViolation(message) == message = "UNIQUE constraint failed: Link.slug"

\* process.env.BASE_URL || 'http://localhost:3000'
BaseUrl(env) == IF Truthy(env) THEN env ELSE "http://localhost:3000"

\* The table's uniqueness constraint on slug.
HasSlug(table, slug) == \E row \in table : row.slug = slug
RowOf(table, slug) == CHOOSE row \in table : row.slug = slug

\* Variant of SlugFormatOk: capitals are let through.
SlugFormatOk_AnyCase(slug) ==
  /\ Len(slug) >= 6
  /\ Len(slug) <= 8
  /\ \A i \in 1..Len(slug) : slug[i] \in SlugAlphabet \cup {"A"}

\* /^[a-z0-9]{6,8}$/.test(slug)
SlugFormatOk(slug) ==
  /\ Len(slug) >= 6
  /\ Len(slug) <= 8
  /\ \A i \in 1..Len(slug) : slug[i] \in SlugAlphabet

\* The loop head of createShortLink at `attempt`, ch being the draws of
\* generateSlug.
LkLoop(call, attempt, ch) ==
  IF attempt < maxRetries
  THEN [call EXCEPT !.pc = "insert", !.attempt = attempt,
                    !.slug = generateSlug(SlugLength(attempt), ch),
                    !.tries = @ + 1]
  ELSE [call EXCEPT !.pc = "done", !.attempt = attempt,
                    !.result = [kind |-> "throw", slug |-> << >>, shortUrl |-> << >>,
                                error |-> "Failed to generate unique slug after multiple attempts"]]

\* createShortLink({ longUrl }), up to its first await.
LkCreate(c, longUrl, ch) ==
  /\ lkCalls[c].pc = "idle"
  /\ lkCalls' = [lkCalls EXCEPT ![c] = LkLoop([NoCall EXCEPT !.longUrl = longUrl], 0, ch)]
  /\ UNCHANGED <<lkTable, lkEnv, lkGet, lkMap, outsideLk>>

\* prisma.link.create of call c is carried out and answered; down: the
\* database cannot be reached; message: the wording of a conflict; ch: the
\* draws of the next generateSlug.
LkInsertAnswered(c, down, message, ch) ==
  /\ lkCalls[c].pc = "insert"
  /\ LET call == lkCalls[c]
         thrown(text) ==
           [call EXCEPT !.pc = "done",
                        !.result = [kind |-> "throw", slug |-> << >>, shortUrl |-> << >>,
                                    error |-> text]]
         error == IF down THEN DbDown ELSE message
     IN  IF down \/ HasSlug(lkTable, call.slug)
         THEN /\ lkTable' = lkTable
              /\ lkCalls' = [lkCalls EXCEPT ![c] =
                               IF IsUniqueViolation(error)
                               THEN LkLoop(call, call.attempt + 1, ch)
                               ELSE thrown(error)]
         ELSE /\ lkTable' = lkTable \cup {[slug |-> call.slug, longUrl |-> call.longUrl]}
              /\ lkCalls' = [lkCalls EXCEPT ![c] =
                               [call EXCEPT !.pc = "done",
                                            !.inserted = @ \cup {call.slug},
                                            !.result = [kind |-> "return",
                                                        slug |-> call.slug,
                                                        shortUrl |-> <<BaseUrl(lkEnv), "/s/">>
                                                                     \o call.slug,
                                                        error |-> ""]]]
  /\ UNCHANGED <<lkEnv, lkGet, lkMap, outsideLk>>

\* GET /s/[slug]: the format test, getLongUrl, the redirect.
LkRedirect(slug) ==
  /\ lkGet' =
       IF ~SlugFormatOk(slug)
       THEN [slug |-> slug, status |-> 400, location |-> "", lookups |-> 0]
       ELSE LET longUrl == IF HasSlug(lkTable, slug) /\ Truthy(RowOf(lkTable, slug).longUrl)
                           THEN RowOf(lkTable, slug).longUrl
                           ELSE Undefined
            IN  IF ~Truthy(longUrl)
                THEN [slug |-> slug, status |-> 404, location |-> "", lookups |-> 1]
                ELSE [slug |-> slug, status |-> 302, location |-> longUrl, lookups |-> 1]
  /\ lkGet' # lkGet
  /\ UNCHANGED <<lkTable, lkCalls, lkEnv, lkMap, outsideLk>>

\* POST store-link {slug, url}: linkStorage.set(slug, {url, ...}).
LkStoreLink(slug, url) ==
  /\ lkMap' = {row \in lkMap : row.slug # slug} \cup {[slug |-> slug, longUrl |-> url]}
  /\ lkMap' # lkMap
  /\ UNCHANGED <<lkTable, lkCalls, lkEnv, lkGet, outsideLk>>

\* The slugs asked of the redirect endpoint: those returned, one that is
\* not in the table, one of five characters and one in capitals.
AskedSlugs ==
  { lkCalls[c].result.slug : c \in { d \in Requests : lkCalls[d].result.kind = "return" } }
  \cup { generateSlug(6, "z"), generateSlug(5, "a"), generateSlug(6, "A") }

\* The table when the calls start: empty, or holding the slugs of 6 to 10
\* characters that the draws of "a" give.
TakenSlugs ==
  { [slug |-> generateSlug(n, "a"), longUrl |-> "https://old.netlify.app"] : n \in 6..10 }
InitResolve ==
  /\ InitSingle /\ InitConc /\ InitDg /\ InitRl /\ InitSb /\ InitGs /\ InitRt
  /\ lkTable \in {{}, TakenSlugs}
  /\ lkCalls = [c \in Requests |-> NoCall]
  /\ lkEnv \in BaseUrlEnv
  /\ lkGet = NoAnswer
  /\ lkMap = {}

\* One createShortLink call, and requests to the redirect endpoint.
NextResolve ==
  \/ \E longUrl \in LongUrls, ch \in SlugDraws : LkCreate(1, longUrl, ch)
  \/ \E down \in BOOLEAN, message \in ConflictMessages, ch \in SlugDraws :
       LkInsertAnswered(1, down, message, ch)
  \/ \E slug \in AskedSlugs : LkRedirect(slug)

SpecResolve == InitResolve /\ [][NextResolve]_vars

\* GET /s/[slug] when getLongUrl rejects: the catch answers 500.
LkRedirectFails(slug) ==
  /\ SlugFormatOk(slug)
  /\ lkGet' = [slug |-> slug, status |-> 500, location |-> "", lookups |-> 1]
  /\ lkGet' # lkGet
  /\ UNCHANGED <<lkTable, lkCalls, lkEnv, lkMap, outsideLk>>

\* The redirect endpoint asked for the slugs above and for those of the
\* table, with the database answering or not.
NextRedirect ==
  \/ \E longUrl \in LongUrls, ch \in SlugDraws : LkCreate(1, longUrl, ch)
  \/ \E message \in ConflictMessages, ch \in SlugDraws :
       LkInsertAnswered(1, FALSE, message, ch)
  \/ \E slug \in AskedSlugs \cup {row.slug : row \in lkTable} : LkRedirect(slug)
  \/ \E slug \in AskedSlugs \cup {row.slug : row \in lkTable} : LkRedirectFails(slug)

SpecRedirect == InitResolve /\ [][NextRedirect]_vars

InitLinks ==
  /\ InitSingle /\ InitConc /\ InitDg /\ InitRl /\ InitSb /\ InitGs /\ InitRt
  /\ lkTable \in {{}, TakenSlugs}
  /\ lkCalls = [c \in Requests |-> NoCall]
  /\ lkEnv = Undefined
  /\ lkGet = NoAnswer
  /\ lkMap = {}

\* Concurrent createShortLink calls, and requests to the store-link function.
NextLinks ==
  \/ \E c \in Requests, longUrl \in LongUrls, ch \in SlugDraws : LkCreate(c, longUrl, ch)
  \/ \E c \in Requests, message \in ConflictMessages, ch \in SlugDraws :
       LkInsertAnswered(c, FALSE, message, ch)
  \/ \E slug \in {generateSlug(6, "a")}, url \in LongUrls : LkStoreLink(slug, url)

SpecLinks == InitLinks /\ [][NextLinks]_vars

\* ------------------------------------------------------------ generateSite
\* OpenAIClient.generateSite and its validator. The content of a file is
\* what the validator can tell of it: the texts it holds (text), the
\* attributes written in it (attrs), each with its name, the quote that
\* follows the equals sign ("" when there is none) and the start of its
\* value, and its length in bytes (bytes).
Doctypes == {"<!doctype html>", "<!DOCTYPE html>", "<!Doctype html>"}
Attributes ==
  [attr : {"href", "SRC"}, quote : {"\"", "'", ""}, start : {"https://", "HTTP://", "/"}]
Content(text, attrs, bytes) == [text |-> text, attrs |-> attrs, bytes |-> bytes]

\* String.prototype.toLowerCase on the strings of the model.
ToLowerCase(str) ==
  CASE str = "SRC" -> "src"
    [] str = "HTTP://" -> "http://"
    [] str = "EVAL  (" -> "eval  ("
    [] OTHER -> str

\* Variant of ExternalUrlPattern: the letters are matched as they are.
ExternalUrlPattern_CaseSensitive(content) ==
  \E a \in content.attrs :
    /\ a.attr \in {"href", "src"}
    /\ a.quote \in {"\"", "'"}
    /\ a.start \in {"http://", "https://"}

\* /(href|src)=["']https?:\/\//i .test(content)
ExternalUrlPattern(content) ==
  \E a \in content.attrs :
    /\ ToLowerCase(a.attr) \in {"href", "src"}
    /\ a.quote \in {"\"", "'"}
    /\ ToLowerCase(a.start) \in {"http://", "https://"}

\* forbiddenPatterns: eval, new Function and document.write followed by any
\* white space and an opening parenthesis, in any case.
ForbiddenPattern(content) ==
  \E t \in content.text :
    ToLowerCase(t) \in {"eval(", "eval  (", "new function(", "document.write("}

\* siteFiles[name] is falsy: the file is absent or empty.
Missing(siteFiles, name) ==
  \/ name \notin DOMAIN siteFiles
  \/ siteFiles[name] = Content({}, {}, 0)

\* Variant of TotalSize: only the entry document is counted.
TotalSize_EntryOnly(siteFiles, names) ==
  IF "index.html" \in names THEN siteFiles["index.html"].bytes ELSE 0

RECURSIVE TotalSize(_, _)
TotalSize(siteFiles, names) ==
  IF names = {} THEN 0
  ELSE LET n == CHOOSE m \in names : TRUE
       IN  siteFiles[n].bytes + TotalSize(siteFiles, names \ {n})

\* validateSiteFiles: TRUE when it returns, FALSE when it throws.
validateSiteFiles(siteFiles) ==
  IF Missing(siteFiles, "index.html") THEN FALSE
  ELSE LET indexHtml == siteFiles["index.html"]
       IN  /\ "<!doctype html>" \in indexHtml.text \/ "<!DOCTYPE html>" \in indexHtml.text
           /\ "<title>" \in indexHtml.text /\ "</title>" \in indexHtml.text
           /\ "<meta name=\"viewport\"" \in indexHtml.text
           /\ ~ExternalUrlPattern(indexHtml)
           /\ ~Missing(siteFiles, "styles.css") => "styles.css" \in indexHtml.text
           /\ ~Missing(siteFiles, "script.js") => "script.js" \in indexHtml.text
           /\ TotalSize(siteFiles, DOMAIN siteFiles) <= 200 * 1024
           /\ \A n \in DOMAIN siteFiles : ~ForbiddenPattern(siteFiles[n])

\* The entry documents, style sheets and scripts the model's API answers with.
HeadTexts == {"<title>", "</title>", "<meta name=\"viewport\""}
IndexDocuments ==
  { Content(HeadTexts \cup d \cup refs, attrs, bytes) :
      d \in {{}} \cup {{t} : t \in Doctypes},
      refs \in SUBSET {"styles.css", "script.js"},
      attrs \in {{}} \cup {{a} : a \in Attributes},
      bytes \in {1000, 102400} }
  \cup { Content({}, {}, 0), Content({"<!doctype html>", "<title>", "</title>"}, {}, 1000),
         Content({"<!doctype html>", "<meta name=\"viewport\""}, {}, 1000) }
StyleSheets ==
  { Content({}, {}, 1000), Content({}, {}, 102400), Content({}, {}, 102401),
    Content({}, {[attr |-> "src", quote |-> "'", start |-> "https://"]}, 1000) }
Scripts ==
  { Content({}, {}, 1000), Content({"EVAL  ("}, {}, 1000),
    Content({}, {[attr |-> "href", quote |-> "\"", start |-> "https://"]}, 1000) }
SiteFileSets ==
  { [n \in {"index.html"} |-> i] : i \in IndexDocuments }
  \cup { [n \in {"index.html", "styles.css"} |-> IF n = "index.html" THEN i ELSE c] :
           i \in IndexDocuments, c \in StyleSheets }
  \cup { [n \in {"index.html", "script.js"} |-> IF n = "index.html" THEN i ELSE j] :
           i \in IndexDocuments, j \in Scripts }
  \cup { [n \in {"index.html", "styles.css", "script.js"} |->
            IF n = "index.html" THEN i ELSE IF n = "styles.css" THEN c ELSE j] :
           i \in IndexDocuments, c \in StyleSheets, j \in Scripts }
  \cup { [n \in {"styles.css"} |-> c] : c \in StyleSheets }

\* Variant of GenerateOutcome: the files are returned without validation.
GenerateOutcome_Unvalidated(ok, wellFormed, siteFiles) ==
  IF ~ok THEN [kind |-> "throw", message |-> "OpenAI API error"]
  ELSE IF ~wellFormed
  THEN [kind |-> "throw", message |-> "MODEL_INVALID_OUTPUT"]
  ELSE [kind |-> "return", message |-> ""]

\* How generateSite ends on an answer of the API.
GenerateOutcome(ok, wellFormed, siteFiles) ==
  IF ~ok THEN [kind |-> "throw", message |-> "OpenAI API error"]
  ELSE IF ~wellFormed \/ ~validateSiteFiles(siteFiles)
  THEN [kind |-> "throw", message |-> "MODEL_INVALID_OUTPUT"]
  ELSE [kind |-> "return", message |-> ""]

\* generateSite from the answer of the API to its end.
GenerateSite(ok, wellFormed, siteFiles) ==
  /\ gsResult.kind = "none"
  /\ gsData' = [ok |-> ok, wellFormed |-> wellFormed, files |-> siteFiles]
  /\ gsResult' = GenerateOutcome(ok, wellFormed, siteFiles)
  /\ UNCHANGED outsideGs

NextGenerate ==
  \/ \E siteFiles \in SiteFileSets : GenerateSite(TRUE, TRUE, siteFiles)
  \/ \E ok, wellFormed \in BOOLEAN :
       /\ ~ok \/ ~wellFormed
       /\ GenerateSite(ok, wellFormed, NoFiles)

SpecGenerate == Init /\ [][NextGenerate]_vars

\* -------------------------------------------------------- submit endpoint
\* POST /api/generate (the route handler) and the generate function. A run
\* and its twin take the same course; they differ only in what the hosting
\* provider wrote into a failing response.
RawTexts == Bodies \cup {"NETLIFY_AUTH"}
FailStatuses == {401, 403, 429, 500, 503}
\* How deployFiles can end: with a URL, or at a provider call that failed,
\* was rejected, or on a timeout, a failed deploy, a deploy without URL.
DeployOutcomes ==
  {[kind |-> "return", stage |-> "", status |-> 200, body |-> ""]}
  \cup [kind : {"throw"}, stage : {"create", "status"}, status : FailStatuses, body : RawTexts]
  \cup [kind : {"throw"}, stage : {"put"}, status : FailStatuses, body : {""}]
  \cup [kind : {"throw"}, stage : {"reject", "timeout", "failed", "nourl"}, status : {0},
        body : {""}]

\* The error deployFiles throws when it ends as f.
DeployFilesThrows(f) ==
  CASE f.stage = "create" -> DeployFilesCatch(CreateError(f.status, f.body))
    [] f.stage = "put" -> DeployFilesCatch(Err("NETLIFY_REQUIRED_UPLOAD_FAILED"))
    [] f.stage = "status" -> DeployFilesCatch(PollError(f.status, f.body))
    [] f.stage = "reject" -> DeployFilesCatch(FetchRejected)
    [] f.stage = "timeout" -> DeployFilesCatch(Err("NETLIFY_DEPLOY_TIMEOUT"))
    [] f.stage = "failed" -> DeployFilesCatch(Err("NETLIFY_DEPLOY_FAILED"))
    [] f.stage = "nourl" -> DeployFilesCatch(Err("NETLIFY_NO_URL"))

\* g is f up to the provider's text: the same call fails, with any body, and
\* with the same status or another one that is neither auth nor 429.
SameUpToText(f, g) ==
  /\ g.kind = f.kind
  /\ g.stage = f.stage
  /\ \/ g.status = f.status
     \/ {f.status, g.status} \cap {401, 403, 429} = {}

Response(status, code, message) ==
  [status |-> status, error |-> code, message |-> message]

\* Variant of DeployErrorPayload: the message of an unlisted error is passed
\* on to the user.
DeployErrorPayload_Raw(error) ==
  IF error.message = <<"NETLIFY_AUTH">>
  THEN Response(500, "NETLIFY_AUTH",
                <<"Netlify auth misconfigured. Check NETLIFY_AUTH_TOKEN / NETLIFY_SITE_ID.">>)
  ELSE IF error.message = <<"NETLIFY_REQUIRED_UPLOAD_FAILED">>
  THEN Response(500, "NETLIFY_REQUIRED_UPLOAD_FAILED",
                <<"Couldn't upload required files. Please retry.">>)
  ELSE IF error.message = <<"NETLIFY_DEPLOY_TIMEOUT">>
  THEN Response(500, "NETLIFY_DEPLOY_TIMEOUT", <<"Deployment took too long. Please retry.">>)
  ELSE IF error.message = <<"NETLIFY_RATE_LIMIT">>
  THEN Response(429, "NETLIFY_RATE_LIMIT",
                <<"Netlify rate limit exceeded. Please try again later.">>)
  ELSE Response(500, "NETLIFY_ERROR", error.message)

\* The catch around deployFiles in the handlers.
DeployErrorPayload(error) ==
  IF error.message = <<"NETLIFY_AUTH">>
  THEN Response(500, "NETLIFY_AUTH",
                <<"Netlify auth misconfigured. Check NETLIFY_AUTH_TOKEN / NETLIFY_SITE_ID.">>)
  ELSE IF error.message = <<"NETLIFY_REQUIRED_UPLOAD_FAILED">>
  THEN Response(500, "NETLIFY_REQUIRED_UPLOAD_FAILED",
                <<"Couldn't upload required files. Please retry.">>)
  ELSE IF error.message = <<"NETLIFY_DEPLOY_TIMEOUT">>
  THEN Response(500, "NETLIFY_DEPLOY_TIMEOUT", <<"Deployment took too long. Please retry.">>)
  ELSE IF error.message = <<"NETLIFY_RATE_LIMIT">>
  THEN Response(429, "NETLIFY_RATE_LIMIT",
                <<"Netlify rate limit exceeded. Please try again later.">>)
  ELSE Response(500, "NETLIFY_ERROR", <<"Failed to deploy site">>)

\* The run and its twin answer and end.
Answer(stage, response, twin) ==
  /\ sbPc' = "answered"
  /\ sbLog' = Append(sbLog, stage)
  /\ sbResponse' = response
  /\ sbTwinResponse' = twin
\* The run and its twin go on to the next stage.
Proceed(stage, next) ==
  /\ sbPc' = next
  /\ sbLog' = Append(sbLog, stage)
  /\ UNCHANGED <<sbResponse, sbTwinResponse>>

\* A request arrives; the function handler answers 405 unless it is a POST.
SbArrives(endpoint, method) ==
  /\ sbPc = "idle"
  /\ sbEndpoint' = endpoint
  /\ UNCHANGED <<sbDeploy, sbTwinDeploy, sbPipeline, outsideSb>>
  /\ IF endpoint = "function" /\ method # "POST"
     THEN LET r == Response(405, "Method not allowed", << >>)
          IN  Answer("method", r, r)
     ELSE Proceed("method", "rate-limit")

\* await checkRateLimit(clientIP)
SbRateLimit(allowed) ==
  /\ sbPc = "rate-limit"
  /\ UNCHANGED <<sbEndpoint, sbDeploy, sbTwinDeploy, sbPipeline, outsideSb>>
  /\ IF ~allowed
     THEN LET r == Response(429, "RATE_LIMIT", <<"Too many requests. Please try again later.">>)
          IN  Answer("rate-limit", r, r)
     ELSE Proceed("rate-limit", "validate")

\* The body is parsed and validated; issue: "" when it is valid, "throws"
\* when parsing throws, "none" when it is absent, else the first issue.
SbValidate(issue) ==
  /\ sbPc = "validate"
  /\ UNCHANGED <<sbEndpoint, sbDeploy, sbTwinDeploy, sbPipeline, outsideSb>>
  /\ issue = "none" => sbEndpoint = "function"
  /\ IF issue = ""
     THEN Proceed("validate", "configuration")
     ELSE LET r == IF issue = "throws"
                   THEN Response(500, "INTERNAL_ERROR", <<"An unexpected error occurred">>)
                   ELSE IF issue = "none"
                   THEN Response(400, "VALIDATION_ERROR", <<"Request body is required">>)
                   ELSE Response(400, "VALIDATION_ERROR", <<issue>>)
          IN  Answer("validate", r, r)

\* The environment variables are read.
SbConfiguration(openaiApiKey, netlifyAuthToken, netlifySiteId) ==
  /\ sbPc = "configuration"
  /\ UNCHANGED <<sbEndpoint, sbDeploy, sbTwinDeploy, sbPipeline, outsideSb>>
  /\ IF ~openaiApiKey \/ ~netlifyAuthToken \/ ~netlifySiteId
     THEN LET r == Response(500, "CONFIGURATION_ERROR", <<"Service configuration error">>)
          IN  Answer("configuration", r, r)
     ELSE Proceed("configuration", "generation")

\* await openaiClient.generateSite(prompt), the API answering with siteFiles.
SbGenerate(ok, wellFormed, siteFiles) ==
  /\ sbPc = "generation"
  /\ sbGenerated' = [ok |-> ok, wellFormed |-> wellFormed, files |-> siteFiles]
                      @@ GenerateOutcome(ok, wellFormed, siteFiles)
  /\ UNCHANGED <<sbEndpoint, sbDeploy, sbTwinDeploy, sbUrl, sbTable, sbBody, outsideSb>>
  /\ IF GenerateOutcome(ok, wellFormed, siteFiles).kind = "return"
     THEN Proceed("generation", "deployment")
     ELSE LET r == IF GenerateOutcome(ok, wellFormed, siteFiles).message
                        = "MODEL_INVALID_OUTPUT"
                   THEN Response(400, "MODEL_INVALID_OUTPUT",
                                 <<"The generator returned an invalid site. Try a shorter or simpler prompt.">>)
                   ELSE Response(500, "OPENAI_ERROR", <<"Failed to generate site">>)
          IN  Answer("generation", r, r)

\* await netlifyClient.deployFiles(siteFiles.files): it ends as f, and as g
\* in the twin run; url is what it returns when it returns.
SbDeploy(f, g, url) ==
  /\ sbPc = "deployment"
  /\ SameUpToText(f, g)
  /\ sbDeploy' = f
  /\ sbTwinDeploy' = g
  /\ UNCHANGED <<sbEndpoint, sbGenerated, sbTable, sbBody, outsideSb>>
  /\ IF f.kind = "return"
     THEN /\ sbUrl' = url
          /\ Proceed("deployment", "short-link")
     ELSE /\ sbUrl' = sbUrl
          /\ Answer("deployment", DeployErrorPayload(DeployFilesThrows(f)),
                    DeployErrorPayload(DeployFilesThrows(g)))

\* await createShortLink({ longUrl: deployUrl }): it inserts its row on
\* `attempt` with the slug of draws ch, or throws.
SbShortLink(created, attempt, ch) ==
  /\ sbPc = "short-link"
  /\ UNCHANGED <<sbEndpoint, sbDeploy, sbTwinDeploy, sbGenerated, sbUrl, outsideSb>>
  /\ LET slug == generateSlug(SlugLength(attempt), ch)
         shortUrl == <<BaseUrl(Undefined), "/s/">> \o slug
     IN  IF created /\ ~HasSlug(sbTable, slug)
         THEN /\ sbTable' = sbTable \cup {[slug |-> slug, longUrl |-> sbUrl]}
              /\ sbBody' = [shortUrl |-> shortUrl, deployUrl |-> sbUrl]
              /\ Answer("short-link", Response(200, "", <<"shortUrl", "deployUrl">>),
                        Response(200, "", <<"shortUrl", "deployUrl">>))
         ELSE /\ UNCHANGED <<sbTable, sbBody>>
              /\ Answer("short-link",
                        Response(500, "DATABASE_ERROR", <<"Failed to create short link">>),
                        Response(500, "DATABASE_ERROR", <<"Failed to create short link">>))

\* The answers of the model's API tried on the endpoint.
SubmittedFileSets ==
  { [n \in {"index.html"} |-> i] :
      i \in {d \in IndexDocuments :
               /\ d.bytes # 102400
               /\ d.attrs \subseteq {[attr |-> "href", quote |-> "\"", start |-> "https://"]}} }

NextSubmit ==
  \/ \E endpoint \in {"route", "function"}, method \in {"POST", "GET"} :
       SbArrives(endpoint, method)
  \/ \E allowed \in BOOLEAN : SbRateLimit(allowed)
  \/ \E issue \in {"", "throws", "none", "Prompt cannot be empty",
                   "Prompt must be 500 characters or less"} : SbValidate(issue)
  \/ \E openaiApiKey, netlifyAuthToken, netlifySiteId \in BOOLEAN :
       SbConfiguration(openaiApiKey, netlifyAuthToken, netlifySiteId)
  \/ /\ sbPc = "generation"
     /\ \/ \E siteFiles \in SubmittedFileSets : SbGenerate(TRUE, TRUE, siteFiles)
        \/ \E ok, wellFormed \in BOOLEAN :
             /\ ~ok \/ ~wellFormed
             /\ SbGenerate(ok, wellFormed, NoFiles)
  \/ /\ sbPc = "deployment"
     /\ \E f, g \in DeployOutcomes, url \in LongUrls : SbDeploy(f, g, url)
  \/ /\ sbPc = "short-link"
     /\ \E created \in BOOLEAN, attempt \in {0, maxRetries - 1}, ch \in SlugDraws :
          SbShortLink(created, attempt, ch)

SpecSubmit == Init /\ [][NextSubmit]_vars

\* ------------------------------------------------------------------ claims
UploadFailed == Err("NETLIFY_REQUIRED_UPLOAD_FAILED")
DeployTimeout == Err("NETLIFY_DEPLOY_TIMEOUT")
\* Some file of the FileSet has fingerprint sha.
HasFingerprint(sha) == \E i \in 1..Len(files) : sha1(files[i].content) = sha
\* The call runs uploadRequiredFiles on a required list.
InUpload == entry \in {"deployFiles", "uploadRequiredFiles"} /\ required.present
\* pollUntilReady has been entered.
PollEntered == delay # 0
Elapsed == now - startTime

\* C1: within one deployFiles call at most one provider call is in flight, the
\* create-deployment call is answered before any PUT is sent, every PUT is
\* answered before the first status query is sent, and no PUT and no create
\* call follows a status query.
C1_State ==
  entry = "deployFiles" =>
    /\ Cardinality(inflight) <= 1
    /\ (Len(puts) > 0 => <<"create", 1>> \notin inflight)
    /\ (nStatus > 0 => /\ Len(putReplies) = Len(puts)
                       /\ \A c \in inflight : c[1] = "status")
C1_Sequential ==
  /\ []C1_State
  /\ [][nStatus > 0 => puts' = puts /\ nCreate' = nCreate]_vars
C1_Witness ==
  entry = "deployFiles" /\ pc = "status" /\ Len(puts) = 2 /\ nStatus = 2

\* C2: uploadRequiredFiles stops at the first entry of the required list
\* that has no file or whose PUT is answered with a non-success status: the
\* call has ended with NETLIFY_REQUIRED_UPLOAD_FAILED at that entry, the k-th
\* PUT is the one of the k-th entry, and no PUT exists for a later entry.
C2_FailsOnFirst ==
  InUpload =>
    LET L == required.list
        visited == IF reqIdx > Len(L) THEN Len(L) ELSE reqIdx
    IN  /\ Len(puts) <= visited
        /\ Len(putReplies) <= Len(puts)
        /\ \A k \in 1..Len(puts) : puts[k].sha = L[k]
        /\ \A k \in 1..visited :
             (\/ ~HasFingerprint(L[k])
              \/ (k <= Len(putReplies) /\ ~Ok(putReplies[k])))
             => /\ k = reqIdx
                /\ pc = "done"
                /\ raised = UploadFailed
                /\ Len(puts) <= k
C2_Witness ==
  /\ entry = "uploadRequiredFiles" /\ pc = "done" /\ raised = UploadFailed
  /\ Len(required.list) = 2 /\ HasFingerprint(required.list[2])
  /\ reqIdx = 1 /\ putReplies = <<500>> /\ Len(puts) = 1

\* C3: uploadRequiredFiles raises NETLIFY_REQUIRED_UPLOAD_FAILED only when
\* some entry of the required list is the fingerprint of no file or some PUT
\* was answered with a non-success status.
C3_OnlyTwoCauses ==
  (InUpload /\ raised = UploadFailed) =>
    \/ \E k \in 1..Len(required.list) : ~HasFingerprint(required.list[k])
    \/ \E k \in 1..Len(putReplies) : ~Ok(putReplies[k])

\* C4: when the create-deployment answer carries an empty or no required
\* list, deployFiles sends no PUT and enters pollUntilReady at once.
C4_EmptyRequired ==
  (entry = "deployFiles" /\ deployId # Undefined /\ Len(required.list) = 0) =>
    /\ puts = << >>
    /\ PollEntered
    /\ nStatus >= 1
    /\ pc \in {"status", "sleep", "done"}
C4_Witness ==
  /\ entry = "deployFiles" /\ deployId # Undefined /\ ~required.present
  /\ pc = "status" /\ puts = << >>

\* C5: an entry of the required list that is the fingerprint of no file is
\* never uploaded; when the loop reaches it the call ends with
\* NETLIFY_REQUIRED_UPLOAD_FAILED, the PUTs of the earlier entries standing.
C5_MissingFingerprint ==
  InUpload =>
    LET L == required.list
    IN  \A k \in 1..Len(L) :
          ~HasFingerprint(L[k]) =>
            /\ \A j \in 1..Len(puts) : puts[j].sha # L[k]
            /\ k <= reqIdx =>
                 /\ k = reqIdx
                 /\ pc = "done"
                 /\ raised = UploadFailed
                 /\ Len(puts) = k - 1
                 /\ \A j \in 1..(k - 1) : puts[j].sha = L[j]
C5_Witness ==
  /\ InUpload /\ pc = "done" /\ raised = UploadFailed
  /\ reqIdx = 2 /\ Len(puts) = 1 /\ putReplies = <<200>>
  /\ ~HasFingerprint(required.list[2])

\* C6: when uploadRequiredFiles has gone through the whole required list, it
\* has sent exactly one PUT per entry, the i-th carrying content whose
\* fingerprint is the i-th entry to the path of a file with that fingerprint.
C6_OnePutPerEntry ==
  (InUpload /\ reqIdx = Len(required.list) + 1) =>
    LET L == required.list
    IN  /\ Len(puts) = Len(L)
        /\ Len(putReplies) = Len(L)
        /\ \A i \in 1..Len(L) :
             /\ sha1(puts[i].body) = L[i]
             /\ Ok(putReplies[i])
             /\ \E f \in 1..Len(files) :
                  /\ NormalizePath(files[f].name) = puts[i].path
                  /\ sha1(files[f].content) = L[i]
C6_Witness ==
  /\ entry = "uploadRequiredFiles" /\ pc = "done" /\ result.kind = "return"
  /\ Len(files) = 2 /\ Len(puts) = 2
  /\ required.list = << sha1(files[2].content), sha1(files[1].content) >>
  /\ sha1(files[1].content) # sha1(files[2].content)

\* C7: every PUT goes to the normalized path of the first file, in iteration
\* order, whose fingerprint is the required one, and carries content of that
\* fingerprint.
C7_FirstOfDuplicates ==
  InUpload =>
    \A j \in 1..Len(puts) :
      /\ puts[j].sha = required.list[j]
      /\ sha1(puts[j].body) = puts[j].sha
      /\ \E i \in 1..Len(files) :
           /\ sha1(files[i].content) = puts[j].sha
           /\ \A h \in 1..(i - 1) : sha1(files[h].content) # puts[j].sha
           /\ puts[j].path = NormalizePath(files[i].name)
C7_Witness ==
  /\ InUpload /\ Len(files) = 2 /\ putReplies = <<200>>
  /\ sha1(files[1].content) = puts[1].sha
  /\ sha1(files[2].content) = puts[1].sha
  /\ files[1].name = <<"a">> /\ puts[1].path = <<"/", "a">>

\* C8: a sleep of pollUntilReady is never longer than the budget that remains
\* when it starts.
C8_SleepWithinBudget ==
  pc = "sleep" => sleepMs <= maxTimeoutMs - Elapsed

\* C9: NETLIFY_DEPLOY_TIMEOUT is raised only with the elapsed time at or past
\* the budget, and a pollUntilReady whose every query was answered with a
\* non-terminal state ends with it.
C9_TimeoutAtBudget ==
  PollEntered =>
    /\ raised = DeployTimeout =>
         /\ Elapsed >= maxTimeoutMs
         /\ nSleeps = nStatus
         /\ pc = "done"
    /\ (pc = "done" /\ nSleeps = nStatus) =>
         /\ raised = DeployTimeout
         /\ result.kind = "throw"
         /\ result.error = DeployTimeout
C9_Witness ==
  /\ entry = "pollUntilReady" /\ raised = DeployTimeout
  /\ nStatus >= 2 /\ Elapsed > maxTimeoutMs

\* C10: pollUntilReady returns the payload of the first status answer that
\* reports ready: every earlier answer led to a sleep, and no sleep and no
\* query follows the ready answer.
C10_ReturnsFirstReady ==
  /\ deploy.state = "ready" =>
       /\ pc = "done"
       /\ inflight = {}
       /\ nSleeps = nStatus - 1
       /\ entry = "pollUntilReady" =>
            (result.kind = "return" /\ result.deploy = deploy)
  /\ (entry = "pollUntilReady" /\ result.kind = "return") =>
       /\ deploy.state = "ready"
       /\ result.deploy = deploy
C10_Witness ==
  /\ entry = "pollUntilReady" /\ result.kind = "return"
  /\ nStatus = 2 /\ nSleeps = 1 /\ result.deploy.state = "ready"

DeployFailed == Err("NETLIFY_DEPLOY_FAILED")
TerminalStates == {"ready", "error", "failed"}

\* C11: the first status answer that reports error or failed ends
\* pollUntilReady with NETLIFY_DEPLOY_FAILED: every earlier answer led to a
\* sleep, and no sleep and no query follows it.
C11_FailedOnFirst ==
  /\ deploy.state \in {"error", "failed"} =>
       /\ pc = "done"
       /\ inflight = {}
       /\ nSleeps = nStatus - 1
       /\ raised = DeployFailed
       /\ result.kind = "throw"
       /\ result.error = DeployFailed
  /\ raised = DeployFailed => deploy.state \in {"error", "failed"}
C11_Witness ==
  /\ entry = "pollUntilReady" /\ raised = DeployFailed
  /\ nStatus = 2 /\ nSleeps = 1 /\ deploy.state = "failed"

\* C12: a status answer with a non-success HTTP status ends pollUntilReady at
\* once with the poll error of that status; a further status query is sent
\* only out of a sleep that followed an ok answer with a non-terminal state.
C12_State ==
  (statusReply.status # 0 /\ ~Ok(statusReply.status)) =>
    /\ pc = "done"
    /\ inflight = {}
    /\ nSleeps = nStatus - 1
    /\ raised = PollError(statusReply.status, statusReply.body)
C12_HttpFailureEnds ==
  /\ []C12_State
  /\ [][(nStatus > 0 /\ nStatus' > nStatus) =>
          /\ pc = "sleep"
          /\ Ok(statusReply.status)
          /\ deploy.state \notin TerminalStates]_vars
C12_Witness ==
  /\ entry = "pollUntilReady" /\ pc = "done" /\ nStatus = 2 /\ nSleeps = 1
  /\ statusReply = [status |-> 500, body |-> "boom"]

\* C13: an error raised by a step of deployFiles (create-deployment, upload,
\* poll) is the error its caller gets; only a foreign error is wrapped.
C13_PropagatesUnchanged ==
  (entry = "deployFiles" /\ pc = "done" /\ raised.name = "Error") =>
    /\ result.kind = "throw"
    /\ result.error = raised

\* C14: a non-success create-deployment answer raises NETLIFY_AUTH for 401
\* and 403, NETLIFY_RATE_LIMIT for 429 and else an error carrying status and
\* body, and no PUT or status query is sent; a success answer raises none of
\* these.
C14_CreateMapping ==
  createReply.status # 0 =>
    LET st == createReply.status
        other == [name |-> "Error",
                  message |-> <<"Netlify API error: ", ToString(st), " ", createReply.body>>]
    IN  /\ st \in {401, 403} => raised = Err("NETLIFY_AUTH")
        /\ st = 429 => raised = Err("NETLIFY_RATE_LIMIT")
        /\ (~Ok(st) /\ st \notin {401, 403, 429}) => raised = other
        /\ ~Ok(st) =>
             /\ pc = "done"
             /\ result.kind = "throw"
             /\ inflight = {}
             /\ puts = << >>
             /\ nStatus = 0
        /\ Ok(st) =>
             /\ deployId # Undefined
             /\ raised \notin {Err("NETLIFY_AUTH"), Err("NETLIFY_RATE_LIMIT")}
             /\ (Len(raised.message) > 0 => raised.message[1] # "Netlify API error: ")
C14_Witness ==
  /\ entry = "deployFiles" /\ pc = "done"
  /\ createReply = [status |-> 403, body |-> "boom"]

\* The kind of an error in the taxonomy of the deployment client.
ErrorKind(error) ==
  IF error.name # "Error" THEN "other"
  ELSE IF error.message = <<"NETLIFY_AUTH">> THEN "auth failure"
  ELSE IF error.message = <<"NETLIFY_RATE_LIMIT">> THEN "provider rate limit"
  ELSE IF error.message = <<"NETLIFY_REQUIRED_UPLOAD_FAILED">> THEN "upload failed"
  ELSE IF error.message = <<"NETLIFY_DEPLOY_FAILED">> THEN "deploy failed"
  ELSE IF error.message = <<"NETLIFY_DEPLOY_TIMEOUT">> THEN "deploy timeout"
  ELSE IF error.message = <<"NETLIFY_NO_URL">> THEN "no public URL"
  ELSE IF Len(error.message) = 0 THEN "other"
  ELSE IF error.message[1] = "NETLIFY_DEPLOY_ERROR: " THEN "generic deploy error"
  ELSE IF error.message[1] \in {"Netlify API error: ", "Failed to poll deployment: "}
       THEN "provider request failed"
  ELSE "other"
Taxonomy ==
  { "auth failure", "provider rate limit", "provider request failed", "upload failed",
    "deploy failed", "deploy timeout", "no public URL", "generic deploy error" }

\* C15: a deployFiles call ends in exactly one outcome, a non-empty URL or one
\* error of the closed taxonomy, and the outcome never changes afterwards.
C15_State ==
  entry = "deployFiles" =>
    /\ (pc = "done") <=> (result.kind \in {"return", "throw"})
    /\ result.kind = "return" => (result.error = NoError /\ Truthy(result.url))
    /\ result.kind = "throw" =>
         (result.url = Undefined /\ ErrorKind(result.error) \in Taxonomy)
C15_ClosedTaxonomy ==
  /\ []C15_State
  /\ [][result.kind # "none" => result' = result]_vars
C15_Witness ==
  /\ entry = "deployFiles" /\ result.kind = "throw" /\ raised = FetchRejected
  /\ ErrorKind(result.error) = "generic deploy error" /\ nStatus = 1

\* C16: getDeployUrl returns the first of ssl_url, url, deploy_url that is
\* present and not empty, and the empty string when none is.
C16_UrlPriority ==
  entry = "getDeployUrl" =>
    LET fields == <<deployArg.ssl_url, deployArg.url, deployArg.deploy_url>>
        Present(i) == fields[i] # Undefined /\ fields[i] # ""
    IN  /\ pc = "done"
        /\ result.kind = "return"
        /\ IF \E i \in 1..3 : Present(i)
           THEN \E i \in 1..3 : /\ Present(i)
                                /\ \A j \in 1..(i - 1) : ~Present(j)
                                /\ result.url = fields[i]
           ELSE result.url = ""
C16_Witness ==
  /\ entry = "getDeployUrl" /\ deployArg.ssl_url = "" /\ deployArg.url = "http://b"
  /\ deployArg.deploy_url = "https://c" /\ result.url = "http://b"

\* The first of the three URL fields of d that is present and not empty.
HasUrl(d) ==
  \E v \in {d.ssl_url, d.url, d.deploy_url} : v # Undefined /\ v # ""
PriorityUrl(d) ==
  CASE d.ssl_url \notin {Undefined, ""} -> d.ssl_url
    [] d.ssl_url \in {Undefined, ""} /\ d.url \notin {Undefined, ""} -> d.url
    [] OTHER -> d.deploy_url

\* C17: deployFiles returns only the priority URL of a payload that a status
\* query of this deploy reported ready, never an empty one; a ready payload
\* without URL gives NETLIFY_NO_URL.
C17_ReturnsReadyUrl ==
  entry = "deployFiles" =>
    /\ result.kind = "return" =>
         /\ nStatus >= 1
         /\ deploy.state = "ready"
         /\ deploy.id = deployId
         /\ HasUrl(deploy)
         /\ result.url = PriorityUrl(deploy)
         /\ result.url \notin {Undefined, ""}
    /\ (deploy.state = "ready" /\ ~HasUrl(deploy)) =>
         /\ result.kind = "throw"
         /\ result.error = Err("NETLIFY_NO_URL")
    /\ result.error = Err("NETLIFY_NO_URL") => (deploy.state = "ready" /\ ~HasUrl(deploy))
C17_Witness ==
  /\ entry = "deployFiles" /\ result.kind = "return" /\ result.url = "https://c"
  /\ deploy.ssl_url = "" /\ nStatus = 2 /\ Len(puts) = 1

\* C18: deployFiles sends the create-deployment call once and at most one PUT
\* per entry of the required list, and once a step has raised an error no
\* provider call is sent or in flight.
C18_State ==
  entry = "deployFiles" =>
    /\ nCreate = 1
    /\ Len(puts) <= Len(required.list)
    /\ Len(putReplies) <= Len(puts)
    /\ \A k \in 1..Len(puts) : puts[k].sha = required.list[k]
    /\ \A k \in 1..Len(putReplies) : ~Ok(putReplies[k]) => Len(puts) = k
    /\ raised # NoError => (pc = "done" /\ inflight = {})
C18_NoRetry ==
  /\ []C18_State
  /\ [][(entry = "deployFiles" /\ raised # NoError) =>
          /\ nCreate' = nCreate
          /\ puts' = puts
          /\ nStatus' = nStatus
          /\ inflight' = inflight]_vars
C18_Witness ==
  /\ entry = "deployFiles" /\ pc = "done" /\ raised = UploadFailed
  /\ putReplies = <<200, 500>> /\ nCreate = 1 /\ nStatus = 0

\* C19: once a status answer has reported ready, error or failed, the call is
\* over: no PUT and no status query is sent or in flight afterwards.
C19_State ==
  (entry \in {"deployFiles", "pollUntilReady"} /\ deploy.state \in TerminalStates) =>
    /\ pc = "done"
    /\ inflight = {}
C19_TerminalIsLast ==
  /\ []C19_State
  /\ [][deploy.state \in TerminalStates =>
          /\ puts' = puts
          /\ nStatus' = nStatus
          /\ inflight' = inflight]_vars
C19_Witness ==
  /\ entry = "deployFiles" /\ pc = "done" /\ deploy.state = "error"
  /\ Len(puts) = 2 /\ nStatus = 2

\* C20: with deployFiles calls interleaved at their awaits, every upload and
\* status call of a request targets the id the provider issued to that
\* request's own create call, a step of one request changes the locals of no
\* other, and two finished requests that had the same FileSet and read the
\* same answers have the same outcome.
C20_State ==
  /\ \A c \in wire :
       c.kind \in {"put", "status"} =>
         /\ \A i \in issued : i.id = c.target <=> i.to = c.req
         /\ \E i \in issued : i.id = c.target
         /\ c.target = reqs[c.req].deployId
         /\ \A q \in Requests \ {c.req} : reqs[q].deployId # c.target
  /\ \A r \in Requests, q \in Requests :
       (/\ reqs[r].pc = "done"
        /\ reqs[q].pc = "done"
        /\ reqs[r].files = reqs[q].files
        /\ reqs[r].seen = reqs[q].seen) => reqs[r].result = reqs[q].result
C20_RequestLocal ==
  /\ []C20_State
  /\ [][\A r \in Requests :
          reqs'[r] # reqs[r] =>
            /\ \A q \in Requests \ {r} : reqs'[q] = reqs[q]
            /\ \A c \in wire' \ wire : c.req = r]_vars
C20_Witness ==
  /\ reqs[1].pc = "status"
  /\ reqs[2].pc = "put"
  /\ reqs[2].reqIdx = 2
  /\ reqs[1].deployId # reqs[2].deployId
  /\ \E c \in wire : c.req = 1 /\ c.kind = "put" /\ c.target = reqs[1].deployId
  /\ \E c \in wire : c.req = 2 /\ c.kind = "put" /\ c.target = reqs[2].deployId

\* C21: the manifest createDeployDigest submits is a function of the FileSet:
\* its keys are the paths of the files, with a slash prefixed unless the path
\* starts with one; the value at a file's key is the fingerprint of a file of
\* that key; with unique keys there is one entry per file, holding that
\* file's fingerprint; two calls on the same FileSet submit equal manifests.
ManifestKey(name) == IF name[1] = "/" THEN name ELSE <<"/">> \o name
UniqueKeys(fs) ==
  \A i, j \in 1..Len(fs) : i # j => ManifestKey(fs[i].name) # ManifestKey(fs[j].name)
C21_ManifestOfFileSet ==
  /\ \A r \in Requests :
       dgSent[r].sent =>
         LET m == dgSent[r].files
         IN  /\ \A i \in 1..Len(dgFiles) :
                  \E k \in 1..Len(m) : m[k].path = ManifestKey(dgFiles[i].name)
             /\ \A k \in 1..Len(m) :
                  \E i \in 1..Len(dgFiles) :
                    /\ m[k].path = ManifestKey(dgFiles[i].name)
                    /\ m[k].sha = sha1(dgFiles[i].content)
             /\ \A k, l \in 1..Len(m) : k # l => m[k].path # m[l].path
             /\ UniqueKeys(dgFiles) =>
                  /\ Len(m) = Len(dgFiles)
                  /\ \A i \in 1..Len(dgFiles) :
                       m[i] = [path |-> ManifestKey(dgFiles[i].name),
                               sha |-> sha1(dgFiles[i].content)]
  /\ \A r, q \in Requests :
       (dgSent[r].sent /\ dgSent[q].sent) => dgSent[r].files = dgSent[q].files
C21_Witness ==
  /\ \A r \in Requests : dgSent[r].sent
  /\ Len(dgFiles) = 2
  /\ dgFiles[1].name = <<"/", "a">>
  /\ dgFiles[2].name = <<"b">>
  /\ dgSent[1].files[2] = [path |-> <<"/", "b">>, sha |-> sha1(dgFiles[2].content)]

\* C22: the delay of the n-th sleep of pollUntilReady is
\* min(1000 * 1.5^(n-1), 8000) ms; it is multiplied by 1.5 after every sleep
\* up to the cap, never decreases and never exceeds 8000 ms.
RECURSIVE Pow(_, _)
Pow(b, k) == IF k = 0 THEN 1 ELSE b * Pow(b, k - 1)
\* 1.5^7 > 8, so from the 8th sleep on the exponent need not grow.
C22_Exponent(n) == IF n - 1 < 7 THEN n - 1 ELSE 7
C22_State ==
  /\ delay <= 4 * 8000
  /\ PollEntered => delay >= 4 * 1000
  /\ pc = "sleep" =>
       LET k == C22_Exponent(nSleeps)
       IN  /\ nSleeps >= 1
           /\ IF 1000 * Pow(3, k) >= 8000 * Pow(2, k)
              THEN delay = 4 * 8000
              ELSE delay * Pow(2, k) = 4 * 1000 * Pow(3, k)
           /\ sleepMs = delay \div 4
C22_Backoff ==
  /\ []C22_State
  /\ [][/\ delay' >= delay
        /\ (pc = "sleep" /\ pc' # "sleep") =>
             \/ 2 * delay' = 3 * delay /\ delay' < 4 * 8000
             \/ delay' = 4 * 8000 /\ 3 * delay >= 2 * 4 * 8000
        /\ (pc # "sleep" /\ PollEntered) => delay' = delay]_vars
C22_Witness ==
  /\ pc = "sleep" /\ nSleeps = 8 /\ delay = 4 * 8000 /\ sleepMs = 8000
  /\ entry = "deployFiles"

\* C23: when every provider call returns and every timer fires, a started
\* deployFiles call ends with a URL or an error; the status queries of a
\* call are bounded by its budget.
C23_Terminates ==
  (entry = "deployFiles") ~> (entry = "deployFiles" /\ pc = "done" /\ result.kind # "none")
C23_Witness ==
  /\ entry = "deployFiles" /\ pc = "done" /\ raised = DeployTimeout
  /\ nStatus = 5 /\ nSleeps = 5

\* C24: per identifier and window at most maxRequests checks are allowed; a
\* stored count lies in 1..maxRequests; an allowed check reports
\* maxRequests - count >= 0 remaining; a denied one reports 0 remaining and a
\* retryAfter of at least one second that covers the rest of the window; the
\* first check at or after resetTime opens a new window with count 1.
C24_State ==
  /\ \A i \in Identifiers :
       /\ rlStorage[i].count \in 0..maxRequests
       /\ rlGranted[i].n <= maxRequests
  /\ rlResult # NoCheck =>
       /\ rlResult.count \in 1..maxRequests
       /\ rlResult.success =>
            /\ rlResult.remaining = maxRequests - rlResult.count
            /\ rlResult.remaining >= 0
       /\ ~rlResult.success =>
            /\ rlResult.remaining = 0
            /\ rlResult.retryAfter >= 1
            /\ rlResult.retryAfter * 1000 >= rlResult.resetTime - rlResult.at
            /\ (rlResult.retryAfter - 1) * 1000 < rlResult.resetTime - rlResult.at
C24_Quota ==
  /\ []C24_State
  /\ [][\A i \in Identifiers :
          (rlResult' # rlResult /\ rlResult'.identifier = i) =>
            IF rlStorage[i].count = 0 \/ rlNow >= rlStorage[i].resetTime
            THEN /\ rlResult'.success
                 /\ rlStorage'[i] = [count |-> 1, resetTime |-> rlNow + windowMs]
            ELSE /\ rlResult'.success <=> rlStorage[i].count < maxRequests
                 /\ rlStorage'[i].resetTime = rlStorage[i].resetTime]_vars
C24_Witness ==
  /\ rlResult.identifier = "unknown" /\ ~rlResult.success /\ rlResult.retryAfter = 1
  /\ rlGranted["unknown"].n = maxRequests
  /\ rlStorage["203.0.113.7"].count = 1

\* C25: with requests of one identifier suspended at checkRateLimit at the
\* same time, the k-th allowed check of a window observes count k, so no two
\* allowed checks of a window observe the same count; the stored count is the
\* number of allowed checks of the window, and it never exceeds maxRequests.
C25_State ==
  /\ \A i \in Identifiers :
       /\ rlGranted[i].n <= maxRequests
       /\ (rlStorage[i].count > 0 /\ rlGranted[i].opened + windowMs = rlStorage[i].resetTime)
            => rlStorage[i].count = rlGranted[i].n
  /\ rlResult.success => rlResult.count = rlGranted[rlResult.identifier].n
  /\ \A r, q \in Requests :
       (/\ r # q
        /\ rlSlots[r].pc = "awaiting" /\ rlSlots[q].pc = "awaiting"
        /\ rlSlots[r].result.success /\ rlSlots[q].result.success
        /\ rlSlots[r].result.identifier = rlSlots[q].result.identifier
        /\ rlSlots[r].result.resetTime = rlSlots[q].result.resetTime)
       => rlSlots[r].result.remaining # rlSlots[q].result.remaining
C25_Atomic ==
  /\ []C25_State
  /\ [][\A r \in Requests :
          (rlSlots[r].pc = "idle" /\ rlSlots'[r].pc = "awaiting"
           /\ rlSlots'[r].result.success) =>
            /\ rlStorage'[rlSlots'[r].result.identifier].count = rlSlots'[r].result.count
            /\ \A q \in Requests \ {r} :
                 (/\ rlSlots[q].pc = "awaiting" /\ rlSlots[q].result.success
                  /\ rlSlots[q].result.resetTime = rlSlots'[r].result.resetTime)
                 => rlSlots[q].result.count < rlSlots'[r].result.count]_vars
C25_Witness ==
  /\ \A r \in Requests : rlSlots[r].pc = "awaiting"
  /\ rlSlots[1].result.success /\ rlSlots[1].result.count = maxRequests
  /\ ~rlSlots[2].result.success
  /\ rlStorage["203.0.113.7"].count = maxRequests

\* C26: createShortLink makes at most maxRetries insert attempts; attempt k
\* inserts a slug of 6 + k characters of [a-z0-9]; it returns at its first
\* successful insert, with shortUrl = baseUrl + '/s/' + slug; after maxRetries
\* conflicts it fails for good and has inserted nothing.
C26_State ==
  \A c \in Requests :
    LET call == lkCalls[c]
    IN  /\ call.tries <= maxRetries
        /\ call.pc = "insert" =>
             /\ call.attempt < maxRetries
             /\ call.tries = call.attempt + 1
             /\ Len(call.slug) = 6 + call.attempt
             /\ \A i \in 1..Len(call.slug) : call.slug[i] \in SlugAlphabet
             /\ call.inserted = {}
        /\ call.result.kind = "return" =>
             /\ call.result.slug = call.slug
             /\ call.result.shortUrl =
                  <<IF lkEnv \in {Undefined, ""} THEN "http://localhost:3000" ELSE lkEnv,
                    "/s/">> \o call.slug
             /\ call.inserted = {call.slug}
             /\ [slug |-> call.slug, longUrl |-> call.longUrl] \in lkTable
        /\ call.result.kind = "throw" => call.inserted = {}
        /\ call.tries = maxRetries /\ call.attempt = maxRetries =>
             /\ call.result.kind = "throw"
             /\ call.result.error = "Failed to generate unique slug after multiple attempts"
C26_BoundedRetries ==
  /\ []C26_State
  /\ [][\A c \in Requests :
          /\ lkCalls[c].result.kind # "none" => lkCalls'[c] = lkCalls[c]
          /\ lkCalls'[c].inserted # lkCalls[c].inserted => lkCalls'[c].result.kind = "return"]_vars
C26_Witness ==
  \E c \in Requests :
    /\ lkCalls[c].result.kind = "return"
    /\ lkCalls[c].attempt = 4
    /\ Len(lkCalls[c].result.slug) = 10
    /\ lkCalls[c].tries = maxRetries

\* C27: no two successful creates return the same slug, a store holds one
\* destination per slug, and a mapping once stored is never changed or
\* replaced by a later create.
C27_State ==
  /\ \A c, d \in Requests :
       (c # d /\ lkCalls[c].result.kind = "return" /\ lkCalls[d].result.kind = "return")
       => lkCalls[c].result.slug # lkCalls[d].result.slug
  /\ \A row, other \in lkTable : row.slug = other.slug => row = other
  /\ \A row, other \in lkMap : row.slug = other.slug => row = other
C27_NeverOverwritten ==
  /\ []C27_State
  /\ [][/\ \A row \in lkTable : row \in lkTable'
        /\ \A row \in lkMap : row \in lkMap']_vars

\* C28: a GET of the redirect endpoint with a slug that a successful
\* createShortLink returned answers 302 with the destination given to the
\* create as Location, never 400 or 404.
C28_RoundTrip ==
  [][\A c \in Requests :
       (/\ lkGet' # lkGet
        /\ lkCalls[c].result.kind = "return"
        /\ lkGet'.slug = lkCalls[c].result.slug)
       => /\ lkGet'.status = 302
          /\ lkGet'.location = lkCalls[c].longUrl]_vars

\* C29: the response of the submit endpoint does not depend on what the
\* hosting provider wrote into a failing answer: a run and its twin, which
\* differ in the body text or in the exact non-auth, non-429 status only,
\* return the same status, error code and message; every error response
\* carries one of a fixed set of error codes.
ErrorCodes ==
  {"RATE_LIMIT", "VALIDATION_ERROR", "CONFIGURATION_ERROR", "MODEL_INVALID_OUTPUT",
   "OPENAI_ERROR", "NETLIFY_AUTH", "NETLIFY_REQUIRED_UPLOAD_FAILED",
   "NETLIFY_DEPLOY_TIMEOUT", "NETLIFY_RATE_LIMIT", "NETLIFY_ERROR", "DATABASE_ERROR",
   "INTERNAL_ERROR", "Method not allowed"}
C29_NoRawText ==
  /\ sbResponse = sbTwinResponse
  /\ sbPc = "answered" =>
       /\ sbResponse.status # 200 => sbResponse.error \in ErrorCodes
       /\ \A i \in 1..Len(sbResponse.message) : sbResponse.message[i] \notin RawTexts \ {""}
C29_Witness ==
  /\ sbPc = "answered"
  /\ sbDeploy.stage = "create" /\ sbDeploy.status = 500 /\ sbDeploy.body = "boom"
  /\ sbTwinDeploy.status = 503 /\ sbTwinDeploy.body = "NETLIFY_AUTH"
  /\ sbResponse.error = "NETLIFY_ERROR"

\* C30: a FileSet in which any file, the entry document, the style sheet or
\* the script, holds an href or src attribute whose value starts with
\* http:// or https://, in any case, is never returned by generateSite.
C30_External(content) ==
  \E a \in content.attrs :
    /\ ToLowerCase(a.attr) \in {"href", "src"}
    /\ ToLowerCase(a.start) \in {"http://", "https://"}
C30_RejectsExternal ==
  gsResult.kind = "return" =>
    \A n \in DOMAIN gsData.files : ~C30_External(gsData.files[n])

\* The checks of the validator other than the size check, for an answer
\* that holds an entry document.
PassesOtherChecks(siteFiles) ==
  /\ ~Missing(siteFiles, "index.html")
  /\ LET indexHtml == siteFiles["index.html"]
     IN  /\ {"<!doctype html>", "<!DOCTYPE html>"} \cap indexHtml.text # {}
         /\ {"<title>", "</title>", "<meta name=\"viewport\""} \subseteq indexHtml.text
         /\ ~ExternalUrlPattern(indexHtml)
         /\ \A n \in {"styles.css", "script.js"} :
              ~Missing(siteFiles, n) => n \in indexHtml.text
  /\ \A n \in DOMAIN siteFiles : ~ForbiddenPattern(siteFiles[n])
BytesOf(siteFiles, name) ==
  IF name \in DOMAIN siteFiles THEN siteFiles[name].bytes ELSE 0
SumOfBytes(siteFiles) ==
  BytesOf(siteFiles, "index.html") + BytesOf(siteFiles, "styles.css")
    + BytesOf(siteFiles, "script.js")

\* C31: a FileSet that passes every other check is returned when the bytes
\* of all its files sum to 200 * 1024 or less and refused when they sum to
\* 200 * 1024 + 1 or more; every file counts, not the entry document alone.
C31_SizeBoundary ==
  (gsResult.kind # "none" /\ gsData.ok /\ gsData.wellFormed
     /\ PassesOtherChecks(gsData.files))
  => /\ SumOfBytes(gsData.files) <= 204800 => gsResult.kind = "return"
     /\ SumOfBytes(gsData.files) >= 204801 =>
          gsResult = [kind |-> "throw", message |-> "MODEL_INVALID_OUTPUT"]
C31_Witness ==
  /\ gsResult.kind = "return"
  /\ PassesOtherChecks(gsData.files)
  /\ SumOfBytes(gsData.files) = 204800
  /\ BytesOf(gsData.files, "index.html") = 102400

\* C32: the doctype of the entry document is matched in any letter case: an
\* otherwise valid FileSet is returned with every spelling of the doctype,
\* and refused without a doctype.
C32_OtherwiseValid(siteFiles) ==
  /\ ~Missing(siteFiles, "index.html")
  /\ LET indexHtml == siteFiles["index.html"]
     IN  /\ {"<title>", "</title>", "<meta name=\"viewport\""} \subseteq indexHtml.text
         /\ ~ExternalUrlPattern(indexHtml)
         /\ \A n \in {"styles.css", "script.js"} :
              ~Missing(siteFiles, n) => n \in indexHtml.text
  /\ \A n \in DOMAIN siteFiles : ~ForbiddenPattern(siteFiles[n])
  /\ SumOfBytes(siteFiles) <= 204800
C32_DoctypeAnyCase ==
  (gsResult.kind # "none" /\ gsData.ok /\ gsData.wellFormed
     /\ C32_OtherwiseValid(gsData.files))
  => (gsResult.kind = "return" <=> gsData.files["index.html"].text \cap Doctypes # {})

\* C33: the stages of the submit endpoint run in the order rate-limit check,
\* validation, configuration check, generation, deployment, short link, each
\* only after the earlier ones succeeded: deployFiles is called only with
\* files that parsed and passed the validator, createShortLink only with the
\* URL deployFiles returned, and a 200 response carries that URL as deployUrl
\* and a shortUrl whose slug is stored with that URL as its destination.
StageOrder ==
  <<"method", "rate-limit", "validate", "configuration", "generation", "deployment",
    "short-link">>
Ran(stage) == \E i \in 1..Len(sbLog) : sbLog[i] = stage
C33_StageOrder ==
  /\ Len(sbLog) <= Len(StageOrder)
  /\ \A i \in 1..Len(sbLog) : sbLog[i] = StageOrder[i]
  /\ sbResponse.status \notin {0, 200} => sbPc = "answered"
  /\ Ran("deployment") =>
       /\ sbGenerated.ok /\ sbGenerated.wellFormed
       /\ validateSiteFiles(sbGenerated.files)
  /\ Ran("short-link") => sbDeploy.kind = "return" /\ sbUrl \in LongUrls
  /\ sbResponse.status = 200 =>
       /\ sbBody.deployUrl = sbUrl
       /\ \E row \in sbTable :
            /\ row.longUrl = sbUrl
            /\ sbBody.shortUrl = <<BaseUrl(Undefined), "/s/">> \o row.slug
C33_Witness ==
  /\ sbPc = "answered"
  /\ sbLog = StageOrder
  /\ sbResponse.status = 200
  /\ sbBody.deployUrl = "https://site-b.netlify.app"
  /\ "styles.css" \in sbGenerated.files["index.html"].text

\* C34: pollUntilReady starts a status query only with the elapsed time
\* strictly below the budget: with a budget of 0 or less it makes no query
\* and raises NETLIFY_DEPLOY_TIMEOUT, and after a sleep that carries the
\* elapsed time to the budget or past it the timeout is raised without
\* another query.
C34_State ==
  (PollEntered /\ maxTimeoutMs <= 0) =>
    /\ nStatus = 0
    /\ pc = "done"
    /\ raised = DeployTimeout
C34_QueryWithinBudget ==
  /\ []C34_State
  /\ [][/\ nStatus' # nStatus =>
             /\ nStatus' = nStatus + 1
             /\ now' - startTime' < maxTimeoutMs'
        /\ (pc = "sleep" /\ now' - startTime >= maxTimeoutMs) =>
             /\ nStatus' = nStatus
             /\ pc' = "done"
             /\ raised' = DeployTimeout]_vars
C34_Witness ==
  /\ entry = "pollUntilReady" /\ maxTimeoutMs = 0
  /\ pc = "done" /\ raised = DeployTimeout /\ nStatus = 0 /\ nSleeps = 0

\* C35: a status answer whose state is none of ready, error and failed, a
\* missing state and an unknown one included, is not terminal: the call
\* sleeps and then queries again (or runs out of budget), and nothing is
\* returned and no NETLIFY_DEPLOY_FAILED is raised on it.
C35_State ==
  /\ pc = "sleep" =>
       /\ deploy.state \notin TerminalStates
       /\ result.kind = "none"
       /\ raised = NoError
  /\ (entry = "pollUntilReady" /\ result.kind = "return") => deploy.state = "ready"
  /\ raised = DeployFailed => deploy.state \in {"error", "failed"}
C35_NonTerminal ==
  /\ []C35_State
  /\ [][/\ (/\ pc = "status"
            /\ raised' # FetchRejected
            /\ Ok(statusReply'.status)
            /\ deploy'.state \notin TerminalStates)
           => /\ pc' = "sleep"
              /\ nSleeps' = nSleeps + 1
              /\ result'.kind = "none"
        /\ pc = "sleep" =>
             \/ pc' = "status" /\ nStatus' = nStatus + 1
             \/ pc' = "done" /\ raised' = DeployTimeout]_vars
C35_Witness ==
  /\ entry = "pollUntilReady" /\ pc = "sleep"
  /\ Ok(statusReply.status) /\ deploy.id # Undefined /\ deploy.state = Undefined
  /\ nStatus = 2 /\ nSleeps = 2

\* C36: a denied check leaves the entry of its identifier as it is, and
\* the entry of an identifier that is inside its window changes only by an
\* allowed check of that identifier.
InWindow(i) == rlStorage[i].count > 0 /\ rlNow < rlStorage[i].resetTime
C36_Frame ==
  [][\A i \in Identifiers :
       /\ (InWindow(i) /\ rlStorage[i].count >= maxRequests) =>
            rlStorage'[i] = rlStorage[i]
       /\ (rlResult' # rlResult /\ ~rlResult'.success /\ rlResult'.identifier = i) =>
            rlStorage'[i] = rlStorage[i]
       /\ (InWindow(i) /\ rlStorage'[i] # rlStorage[i]) =>
            /\ rlResult'.identifier = i
            /\ rlResult'.at = rlNow
            /\ rlResult'.success
            /\ rlStorage'[i] = [rlStorage[i] EXCEPT !.count = @ + 1]]_vars
C36_Witness ==
  /\ rlResult.identifier = "203.0.113.7" /\ ~rlResult.success
  /\ rlStorage["203.0.113.7"].count = maxRequests
  /\ rlStorage["unknown"].count = 3
  /\ rlNow < rlStorage["unknown"].resetTime

\* C37: the cleanup of the rate limiter cannot be observed: it deletes only
\* entries whose window has expired, and the results of a sequence of checks
\* (success, remaining, resetTime, retryAfter) are the same at whichever
\* steps it runs.
C37_CleanupUnobservable ==
  /\ [](rtResult = rlResult)
  /\ [][\A i \in Identifiers :
          /\ (rlStorage[i].count > 0 /\ rlStorage'[i].count = 0) =>
               rlNow >= rlStorage[i].resetTime
          /\ (rtStorage[i].count > 0 /\ rtStorage'[i].count = 0) =>
               rlNow >= rtStorage[i].resetTime]_vars
C37_Witness ==
  /\ rlStorage["unknown"].count = 0
  /\ rtStorage["unknown"].count = 2
  /\ rlResult.identifier = "203.0.113.7" /\ rlResult.count = 2
  /\ rlResult.at = windowMs + 1

\* C38: in createShortLink only a uniqueness conflict leads to another
\* attempt: any other error of the insert is thrown on at once, with no
\* further insert, and after a successful insert no attempt follows, so a
\* successful call has inserted exactly one row.
C38_State ==
  \A c \in Requests :
    LET call == lkCalls[c]
    IN  /\ call.result.kind = "return" =>
             /\ Cardinality(call.inserted) = 1
             /\ Cardinality({row \in lkTable : row.slug \in call.inserted}) = 1
        /\ call.result.error = DbDown => call.pc = "done"
C38_OnlyConflictRetries ==
  /\ []C38_State
  /\ [][\A c \in Requests :
          LET call == lkCalls[c]
          IN  /\ (call.pc = "insert" /\ lkCalls'[c].tries > call.tries) =>
                   /\ HasSlug(lkTable, call.slug)
                   /\ lkTable' = lkTable
              /\ (call.pc = "insert" /\ lkCalls'[c].result.error \in {DbDown} \cup ConflictMessages) =>
                   /\ lkCalls'[c].tries = call.tries
                   /\ lkCalls'[c].pc = "done"
                   /\ lkTable' = lkTable
              /\ call.inserted # {} =>
                   /\ lkCalls'[c] = call
                   /\ \A row \in lkTable' \ lkTable : row.longUrl # call.longUrl]_vars
C38_Witness ==
  /\ lkCalls[1].pc = "done" /\ lkCalls[1].result.error = DbDown
  /\ lkCalls[1].tries = 3 /\ lkCalls[1].inserted = {}

====
